---------------------------- MODULE Spec2Model ----------------------------
(***************************************************************************)
(* A model of two parts of Eureka:                                         *)
(*                                                                         *)
(*  - optimal_extraction (S3_data_reduction/niriss_extraction.py), the     *)
(*    per-integration optimal extraction with its cosmic-ray convergence   *)
(*    loop, stepped one pass of the while loop at a time;                  *)
(*  - CompositePyMC3Model (S5_lightcurve_fitting/differentiable_models/    *)
(*    PyMC3Models.py) with StepModel components (models/StepModel.py).     *)
(*                                                                         *)
(* numpy's floating point values are modelled as exact rationals extended  *)
(* with the IEEE non-finite values: a value is a pair <<n, d>> with        *)
(* d >= 0, in lowest terms; <<0,0>> is NaN, <<1,0>> is +inf and <<-1,0>>   *)
(* is -inf.  Rounding is not modelled.                                     *)
(***************************************************************************)
EXTENDS Integers, Sequences, FiniteSets, TLC

(***************************************************************************)
(* Bounds of the model.                                                    *)
(***************************************************************************)
\* largest number of integrations in a call
MaxT == 2
\* passes of one convergence loop after which the model stops following a
\* loop that does not end (the code has no such cap)
MaxPass == 6
\* largest amplitude on the grid of the profile fit
MaxAmp == 2
\* largest number of components of a composite
MaxComp == 3

(***************************************************************************)
(* Extended rational arithmetic (numpy float arithmetic without rounding). *)
(***************************************************************************)
NaN == <<0, 0>>
PInf == <<1, 0>>
NInf == <<-1, 0>>

AbsInt(n) == IF n < 0 THEN -n ELSE n

SignInt(n) == IF n < 0 THEN -1 ELSE IF n > 0 THEN 1 ELSE 0

RECURSIVE GCD(_, _)
GCD(a, b) == IF b = 0 THEN a ELSE GCD(b, a % b)

\* the value n/d in lowest terms; n/0 is an infinity or NaN
Norm(n, d) ==
  IF d = 0 THEN <<SignInt(n), 0>>
  ELSE LET s == IF d < 0 THEN -1 ELSE 1
           g == GCD(AbsInt(n), AbsInt(d))
       IN <<(s * n) \div g, (s * d) \div g>>

R(n) == <<n, 1>>

IsNaN(a) == a = NaN

IsFinite(a) == a[2] > 0

Add(a, b) ==
  IF a[2] = 0 /\ b[2] = 0
  THEN IF a = b THEN a ELSE NaN
  ELSE Norm(a[1] * b[2] + b[1] * a[2], a[2] * b[2])

Neg(a) == <<-a[1], a[2]>>

Sub(a, b) == Add(a, Neg(b))

Mul(a, b) == Norm(a[1] * b[1], a[2] * b[2])

\* 1/a: 1/0 is +inf, 1/inf is 0
Inv(a) == IF a[1] < 0 THEN Norm(-a[2], -a[1]) ELSE Norm(a[2], a[1])

Div(a, b) == Mul(a, Inv(b))

Abs(a) == <<AbsInt(a[1]), a[2]>>

\* a > b as numpy compares: False whenever a NaN is involved
Gt(a, b) ==
  /\ ~IsNaN(a)
  /\ ~IsNaN(b)
  /\ IF a[2] = 0 /\ b[2] = 0 THEN a[1] > b[1]
     ELSE a[1] * b[2] > b[1] * a[2]

\* r > s, the root left out
GtNoRoot(r, s) == Gt(r, s)

\* np.sqrt(r) > s without taking the root: sqrt of a negative number is NaN
SqrtGt(r, s) ==
  /\ ~IsNaN(r)
  /\ ~IsNaN(s)
  /\ r[1] >= 0
  /\ \/ s[1] < 0
     \/ Gt(r, Mul(s, s))

\* np.nansum of the values f[k], k in the sequence of keys ks: NaNs count as 0
RECURSIVE NanSum(_, _)
NanSum(f, ks) ==
  IF ks = <<>> THEN R(0)
  ELSE LET v == f[Head(ks)]
       IN IF IsNaN(v) THEN NanSum(f, Tail(ks))
          ELSE Add(v, NanSum(f, Tail(ks)))


(***************************************************************************)
(* optimal_extraction: region selection (niriss_extraction.py 226-251).    *)
(***************************************************************************)
Min(a, b) == IF a < b THEN a ELSE b

Max(a, b) == IF a > b THEN a ELSE b

\* the indices a Python slice [a:b] takes from an axis of length n
PySlice(a, b, n) == Min(a, n)..(Min(b, n) - 1)

\* x1, x2, y1, y2 of the quadrant, for a frame of Y rows and X columns
QuadBox(quad, Y, X) ==
  CASE quad = 1 -> [x1 |-> 1000, x2 |-> X, y1 |-> 0, y2 |-> 100]
    [] quad = 2 -> [x1 |-> 1000, x2 |-> 1900, y1 |-> 70, y2 |-> Y]
    [] quad = 3 -> [x1 |-> 0, x2 |-> 1000, y1 |-> 0, y2 |-> Y]
    [] OTHER -> [x1 |-> 0, x2 |-> X, y1 |-> 0, y2 |-> Y]

\* block_extra: ones, with the patch of second order zeroed for quad 1
BlockExtra(quad, Y, X, y, x) ==
  IF /\ quad = 1
     /\ y \in PySlice(80, 100, Y)
     /\ x \in PySlice(1000, 1000 + 250, X)
  THEN 0 ELSE 1

RegionRows(quad, Y, X) ==
  LET b == QuadBox(quad, Y, X) IN PySlice(b.y1, b.y2, Y)

RegionCols(quad, Y, X) ==
  LET b == QuadBox(quad, Y, X) IN PySlice(b.x1, b.x2, X)

\* numpy broadcasting of two axis lengths
AxisOK(n, m) == n = m \/ n = 1 \/ m = 1

(***************************************************************************)
(* State of one call of optimal_extraction.                                *)
(***************************************************************************)
VARIABLES
  args,               \* the arguments of the call
  Q,                  \* the module's global name Q (the gain): <<g>>, or <<>> unbound
  pc,                 \* where the call stands
  i,                  \* index of the integration being extracted
  D,                  \* the integration's image
  median,             \* the representative image
  M,                  \* the cosmic-ray mask of the integration (1 good, 0 bad)
  P,                  \* the normalized profile of the last pass
  y1x1,               \* the pixels the last pass found above the threshold
  isnewprofile,       \* the flag of the convergence loop
  f,                  \* flux of the last final extraction
  var_f,              \* variance of the last final extraction
  extracted_spectra,  \* output array, one row per integration
  extracted_error,    \* output array, one row per integration
  result,             \* what the call gave back to its caller
  npass,              \* passes of the convergence loop made for integration i
  nflag               \* pixels flagged by the last pass of the loop

xvars == <<args, Q, pc, i, D, median, M, P, y1x1, isnewprofile, f, var_f,
           extracted_spectra, extracted_error, result, npass, nflag>>

(***************************************************************************)
(* State of one CompositePyMC3Model and of the components it owns          *)
(* (PyMC3Models.py 263-601, StepModel.py).                                 *)
(***************************************************************************)
VARIABLES
  time,               \* the composite's _time: None or an array of times
  nchan,              \* the composite's nchan
  components,         \* the components, in the order of the list
  flux,               \* what the last eval returned (<<>> when it raised)
  raised,             \* the exception the last operation ended with
  calls,              \* the components whose eval the last eval called, in order
  op,                 \* the method of the composite called last
  new_time,           \* the time grid the last physeval returned
  registries,         \* the Parameters objects in existence, by identity
  parameters,         \* the composite's parameters: one of the registries
  fit,                \* the composite's fit: the current value by name
  freenames,          \* the composite's freenames
  newparams,          \* the values the last update was called with
  operands,           \* the models A and B of a multiplication A * B
  product,            \* what A * B returned: None or a composite
  self_model,         \* the composite's model: attributes and named variables
  issetup,            \* the composite's issetup
  self_flux,          \* the composite's flux: the observed flux
  lc_unc,             \* the composite's lc_unc
  scatter_array,      \* the composite's scatter_array
  setups,             \* the components whose setup was called, in order
  setup_args,         \* the arguments of the last call of setup
  paramtitles,        \* the composite's paramtitles
  message             \* the message of the exception raised last

\* the parameter side of the composite
pvars == <<registries, parameters, fit, freenames, newparams>>

\* the two sides of a multiplication
uvars == <<operands, product>>

\* the PyMC3 side of the composite
svars == <<self_model, issetup, self_flux, lc_unc, scatter_array, setups,
           setup_args, paramtitles, message>>

mvars == <<time, nchan, components, flux, raised, calls, op, new_time, pvars,
           uvars, svars>>

\* the value None; no time array among the inputs is empty
None == <<>>

\* no parameter is bound
IdleP ==
  /\ registries = <<>>
  /\ parameters = 0
  /\ fit = <<>>
  /\ freenames = None
  /\ newparams = <<>>

\* no multiplication is made
IdleU ==
  /\ operands = <<>>
  /\ product = None

\* no PyMC3 model is in use
IdleS ==
  /\ self_model = <<>>
  /\ issetup = FALSE
  /\ self_flux = None
  /\ lc_unc = None
  /\ scatter_array = None
  /\ setups = <<>>
  /\ setup_args = <<>>
  /\ paramtitles = None
  /\ message = <<>>

\* no composite is in use
IdleM ==
  /\ time = None
  /\ nchan = 1
  /\ components = <<>>
  /\ flux = <<>>
  /\ raised = "none"
  /\ calls = <<>>
  /\ op = "none"
  /\ new_time = None
  /\ IdleP
  /\ IdleU
  /\ IdleS

(***************************************************************************)
(* optimal_extraction: the slice and the representative image.             *)
(***************************************************************************)
\* the slice taken at line 251, in coordinates of the slice
Ny == Cardinality(RegionRows(args.quad, args.Y, args.X))

Nx == Cardinality(RegionCols(args.quad, args.Y, args.X))

SliceRows == 0..(Ny - 1)

SliceCols == 0..(Nx - 1)

Pix == SliceRows \X SliceCols

\* the pixels of column c of the slice, top to bottom
ColPix(c) == [k \in 1..Ny |-> <<k - 1, c>>]

\* data[i] after line 251: the frame times block_extra, cut to the region
DataSlice(t) ==
  LET b == QuadBox(args.quad, args.Y, args.X)
  IN [p \in Pix |->
        R(args.data[t][<<p[1] + b.y1, p[2] + b.x1>>]
          * BlockExtra(args.quad, args.Y, args.X, p[1] + b.y1, p[2] + b.x1))]

\* the median of a non-empty sequence of numbers in increasing order
MedianOfSorted(s) ==
  LET n == Len(s)
  IN IF n % 2 = 1 THEN s[(n + 1) \div 2]
     ELSE Div(Add(s[n \div 2], s[n \div 2 + 1]), R(2))

\* the values vs[1..n] in increasing order (insertion sort)
RECURSIVE SortVals(_)
SortVals(vs) ==
  IF vs = <<>> THEN <<>>
  ELSE LET rest == SortVals(Tail(vs))
           v == Head(vs)
           k == Cardinality({j \in 1..Len(rest) : Gt(v, rest[j])})
       IN SubSeq(rest, 1, k) \o <<v>> \o SubSeq(rest, k + 1, Len(rest))

\* lines 259-260: np.nanmedian(data, axis=0), negative values set to 0
MedianImage ==
  [p \in Pix |->
     LET m == MedianOfSorted(SortVals([t \in 1..args.T |-> DataSlice(t - 1)[p]]))
     IN IF Gt(R(0), m) THEN R(0) ELSE m]

(***************************************************************************)
(* The profile builders (niriss_extraction.py 79-172).  The least-squares  *)
(* fit is a search of a small parameter grid for the least sum of squared  *)
(* residuals; the image builders of niriss_cython are kernels tabulated by *)
(* the distance in rows from the centre of the order.                      *)
(***************************************************************************)
\* Gaussian kernel of width index w at d rows from the centre, in units in
\* which the peak is 2; beyond one row the kernel underflows to 0
GaussK(w, d) ==
  IF d = 0 THEN 2
  ELSE IF d = 1 /\ w = 2 THEN 1
  ELSE 0

\* Moffat kernel (alpha index al, gamma index g) at d rows from the centre:
\* a power law, positive at every distance
MoffK(al, g, d) ==
  IF d = 0 THEN 4
  ELSE IF al = 1 THEN g + 1
  ELSE g

\* niriss_cython.build_gaussian_images: the image of each order
BuildGaussianImages(A, B, w, pos1, pos2) ==
  [o1 |-> [p \in Pix |-> R(A * GaussK(w, AbsInt(p[1] - pos1[p[2]])))],
   o2 |-> [p \in Pix |-> R(B * GaussK(w, AbsInt(p[1] - pos2[p[2]])))]]

\* niriss_cython.build_moffat_images: the image of each order
BuildMoffatImages(A, al, g, pos1, pos2) ==
  [o1 |-> [p \in Pix |-> R(A * MoffK(al, g, AbsInt(p[1] - pos1[p[2]])))],
   o2 |-> [p \in Pix |-> R(A * MoffK(al, g, AbsInt(p[1] - pos2[p[2]])))]]

\* the sum over the image of (model - data)^2, the cost least_squares lowers
RECURSIVE SumSq(_, _, _)
SumSq(model, img, ps) ==
  IF ps = {} THEN R(0)
  ELSE LET p == CHOOSE q \in ps : TRUE
           r == Sub(model[p], img[p])
       IN Add(Mul(r, r), SumSq(model, img, ps \ {p}))

\* the grid of (A, B, sig1): bounds=([0.1,0.1,0.1], [100,100,30]) keep all
\* three positive
GaussGrid == (1..MaxAmp) \X (1..MaxAmp) \X {1, 2}

\* the grid of (A, alpha, gamma); the fit has no bounds, and the grid keeps to
\* amplitudes other than 0 (the amplitude cancels in the normalization)
MoffatGrid == (1..MaxAmp) \X {1, 2} \X {1, 2}

\* the place of a grid point in the order that settles ties
GridRank(c) == (c[3] * (MaxAmp + 1) + c[1]) * (MaxAmp + 1) + c[2]

\* the grid point of least cost, the first in rank among equals
ArgMin(grid, cost) ==
  CHOOSE c \in grid :
    \A e \in grid :
      \/ Gt(cost[e], cost[c])
      \/ cost[e] = cost[c] /\ GridRank(c) <= GridRank(e)

profile_niriss_gaussian(img, pos1, pos2) ==
  LET model(c) == LET b == BuildGaussianImages(c[1], c[2], c[3], pos1, pos2)
                  IN [p \in Pix |-> Add(b.o1[p], b.o2[p])]
      cost == [c \in GaussGrid |-> SumSq(model(c), img, Pix)]
      x == ArgMin(GaussGrid, cost)
  IN BuildGaussianImages(x[1], x[2], x[3], pos1, pos2)

profile_niriss_moffat(img, pos1, pos2) ==
  LET model(c) == LET b == BuildMoffatImages(c[1], c[2], c[3], pos1, pos2)
                  IN [p \in Pix |-> Add(b.o1[p], b.o2[p])]
      cost == [c \in MoffatGrid |-> SumSq(model(c), img, Pix)]
      x == ArgMin(MoffatGrid, cost)
  IN BuildMoffatImages(x[1], x[2], x[3], pos1, pos2)

(***************************************************************************)
(* One pass of the convergence loop (niriss_extraction.py 265-337).        *)
(***************************************************************************)
\* box_extract (niriss.py 316-318): the box spectrum of frame column x is
\* the sum of the column
BoxSpectrum(t, x) ==
  LET col == [y \in 1..args.Y |-> R(args.data[t][<<y - 1, x>>])]
  IN NanSum(col, [k \in 1..args.Y |-> k])

\* spectrum[t] at column c of the slice
Spectrum(t, c) == BoxSpectrum(t, c + QuadBox(args.quad, args.Y, args.X).x1)

\* sky_bkg[t] at any pixel: the background is one level over the frame
Sky == R(args.sky)

\* rows and columns of sky_bkg[t], spectrum[t] and cr_mask[t] as the caller
\* passes them: cut to the region, or of the whole frame
AuxShape == IF args.auxCut THEN <<Ny, Nx>> ELSE <<args.Y, args.X>>

\* the arrays of the region and the caller's arrays broadcast together
ShapesOK == AxisOK(Ny, AuxShape[1]) /\ AxisOK(Nx, AuxShape[2])

\* (median - sky_bkg[i]) * M, the image the profile is fitted to
MaskedImage(med, mask) == [p \in Pix |-> Mul(Sub(med[p], Sky), R(mask[p]))]

\* lines 274-287: the first of the two images the builder returns
RawProfile(med, mask) ==
  IF args.proftype = "gaussian"
  THEN profile_niriss_gaussian(MaskedImage(med, mask), args.pos.o1, args.pos.o2).o1
  ELSE profile_niriss_moffat(MaskedImage(med, mask), args.pos.o1, args.pos.o2).o1

\* line 294: P/np.nansum(P, axis=0)
Normalize(raw) ==
  [p \in Pix |-> Div(raw[p], NanSum(raw, ColPix(p[2])))]

Profile(med, mask) == Normalize(RawProfile(med, mask))

\* line 299: V = spectrum_var[i] + |sky_bkg[i] + P*spectrum[i]| / Q
Variance(prof, t) ==
  [p \in Pix |->
     Add(R(args.svar),
         Div(Abs(Add(Sky, Mul(prof[p], Spectrum(t, p[2])))), R(Q[1])))]

\* line 302 before the root: (|D - sky_bkg[i] - spectrum[i]| * P)^2 / V
Stdevs2(img, prof, v, t) ==
  [p \in Pix |->
     LET a == Mul(Abs(Sub(Sub(img[p], Sky), Spectrum(t, p[2]))), prof[p])
     IN Div(Mul(a, a), v[p])]

\* the pixels where stdevs > sigma, masked or not
FlaggedAgain(img, prof, mask, t) ==
  LET s2 == Stdevs2(img, prof, Variance(prof, t), t)
  IN {p \in Pix : mask[p] \in {0, 1} /\ SqrtGt(s2[p], args.sigma)}

\* line 303: the pixels where stdevs*M > sigma
Flagged(img, prof, mask, t) ==
  LET s2 == Stdevs2(img, prof, Variance(prof, t), t)
  IN {p \in Pix :
        IF mask[p] = 1 THEN SqrtGt(s2[p], args.sigma)
        ELSE /\ IsFinite(s2[p])
             /\ s2[p][1] >= 0
             /\ Gt(R(0), args.sigma)}

\* the static mask of integration t left unapplied
ApplyNoMask(img, t) == [p \in Pix |-> IF t < 0 THEN R(0) ELSE img[p]]

\* lines 323-324: D*~cr_mask[i], cr_mask an array of booleans
ApplyCrMask(img, t) ==
  IF ~args.has_cr THEN img
  ELSE [p \in Pix |-> IF args.cr_mask[t][p] THEN R(0) ELSE img[p]]

\* a denominator that weights by P in place of its square
DenomUnsquared(prof, v, mask, c) ==
  NanSum([p \in Pix |-> Mul(R(mask[p]), Div(prof[p], v[p]))], ColPix(c))

\* line 327: denom = nansum(M * P**2 / V, axis=0)
Denom(prof, v, mask, c) ==
  NanSum([p \in Pix |-> Mul(R(mask[p]), Div(Mul(prof[p], prof[p]), v[p]))],
         ColPix(c))

\* a numerator that sums over every pixel of the column
FluxUnmasked(img, prof, v, mask, c) ==
  Div(NanSum([p \in Pix |-> Div(Mul(prof[p], Sub(img[p], Sky)), v[p])],
             ColPix(c)),
      Denom(prof, v, mask, c))

\* line 328: f = nansum(M*P*(D - sky_bkg[i])/V, axis=0) / denom
Flux(img, prof, v, mask, c) ==
  Div(NanSum([p \in Pix |->
                Div(Mul(Mul(R(mask[p]), prof[p]), Sub(img[p], Sky)), v[p])],
             ColPix(c)),
      Denom(prof, v, mask, c))

\* line 329: var_f = nansum(M*P, axis=0) / denom
FluxVar(prof, v, mask, c) ==
  Div(NanSum([p \in Pix |-> Mul(R(mask[p]), prof[p])], ColPix(c)),
      Denom(prof, v, mask, c))

(***************************************************************************)
(* The calls the model makes.                                              *)
(***************************************************************************)
\* the pixels of a frame that carry data in the model: its last two columns
\* (the quadrants admitted for a wide frame read no other column)
ContentPix(Y, X) == (0..(Y - 1)) \X {x \in 0..(X - 1) : x >= X - 2}

\* an image with value lo everywhere but on the pixels of hot, where it is hi
Scene(Y, X, lo, hi, hot) ==
  [p \in ContentPix(Y, X) |->
     IF <<p[1], p[2] - Max(X - 2, 0)>> \in hot THEN hi ELSE lo]

Scenes(Y, X) ==
  {Scene(Y, X, 6, 60, {}),
   Scene(Y, X, 6, 60, {<<1, 1>>})}

\* the thresholds tried: finite ones, infinity and a negative one
Sigmas == {R(1), R(2), PInf, R(-1)}

\* trace centres per column of the slice: on the rows of the slice, or (column
\* 0 of the first order) far off it
PosNear == [o1 |-> [c \in 0..1 |-> 0], o2 |-> [c \in 0..1 |-> 1]]

PosFar == [o1 |-> [c \in 0..1 |-> IF c = 0 THEN 2000 ELSE 0],
           o2 |-> [c \in 0..1 |-> 1]]

\* a mask of booleans per integration, marking pixel (0, 1) of the slice
CrMasks(T) == [t \in 0..(T - 1) |-> [p \in (0..1) \X (0..1) |-> p = <<0, 1>>]]

\* a call on a frame of 2 x 2 pixels with every argument in order
Nominal ==
  [T : 1..MaxT, Y : {2}, X : {2}, quad : {4}, auxCut : {FALSE},
   proftype : {"gaussian", "moffat"}, has_pos1 : {TRUE}, has_pos2 : {TRUE},
   pos : {PosNear}, sigma : Sigmas, has_cr : BOOLEAN, sky : {0, 1},
   svar : {1}, short_bkg : {FALSE}]

\* nominal calls without a static mask, on a zero background, at threshold 2
Plain == {n \in Nominal : ~n.has_cr /\ n.sky = 0 /\ n.sigma = R(2)}

\* (X, quad, auxCut): the regions tried, on frames of 2 rows
Regions ==
  {<<2, 1, FALSE>>, <<2, 2, FALSE>>, <<2, 3, FALSE>>,
   <<1002, 1, FALSE>>, <<1002, 1, TRUE>>, <<1002, 2, FALSE>>}

ProfTypes == {"median", "gaussian", "moffat", "lorentzian"}

\* the nominal calls, and the calls that differ from a plain one in the
\* profile arguments, in the region, in the trace or in the length of sky_bkg
Configs ==
  Nominal
  \cup {[n EXCEPT !.proftype = pt, !.has_pos1 = a, !.has_pos2 = b] :
          n \in Plain, pt \in ProfTypes, a \in BOOLEAN, b \in BOOLEAN}
  \cup {[n EXCEPT !.X = r[1], !.quad = r[2], !.auxCut = r[3]] :
          n \in Plain, r \in Regions}
  \cup {[n EXCEPT !.pos = PosFar] : n \in Plain}
  \cup {[n EXCEPT !.short_bkg = TRUE] : n \in Plain}

\* every configuration with every choice of one scene per integration
Calls ==
  UNION {{c @@ [data |-> d, cr_mask |-> CrMasks(c.T)] : d \in [0..(c.T - 1) -> Scenes(c.Y, c.X)]} :
           c \in Configs}

\* the gain the module finds under the name Q; the module itself binds none
Gains == {<<>>, <<2>>}

\* an image of zeros over the slice of a call
ZeroImage(a) ==
  [p \in (0..(Cardinality(RegionRows(a.quad, a.Y, a.X)) - 1))
         \X (0..(Cardinality(RegionCols(a.quad, a.Y, a.X)) - 1)) |-> R(0)]

ZeroRow(a) == [x \in 0..(a.X - 1) |-> R(0)]

InitX ==
  /\ args \in Calls
  /\ Q \in Gains
  /\ pc = "call"
  /\ i = 0
  /\ D = ZeroImage(args)
  /\ median = ZeroImage(args)
  /\ M = [p \in DOMAIN ZeroImage(args) |-> 1]
  /\ P = ZeroImage(args)
  /\ y1x1 = {}
  /\ isnewprofile = FALSE
  /\ f = <<>>
  /\ var_f = <<>>
  /\ extracted_spectra = <<>>
  /\ extracted_error = <<>>
  /\ result = "none"
  /\ npass = 0
  /\ nflag = 0
  /\ IdleM

(***************************************************************************)
(* The steps of optimal_extraction.                                        *)
(***************************************************************************)
\* lines 226-251: the output arrays of zeros, and the slice
Call ==
  /\ pc = "call"
  /\ extracted_spectra' = [t \in 0..(args.T - 1) |-> ZeroRow(args)]
  /\ extracted_error' = [t \in 0..(args.T - 1) |-> ZeroRow(args)]
  /\ pc' = "for"
  /\ UNCHANGED <<args, Q, i, D, median, M, P, y1x1, isnewprofile, f, var_f, result,
                 npass, nflag>>
  /\ UNCHANGED mvars

\* the mask an integration would start from were the last mask kept
CarriedMask == M

\* line 263: M = np.ones(D.shape)
FreshMask == [p \in Pix |-> 1]

\* lines 253-263: the next integration starts from its own image, the median
\* of the slice and a mask of ones
BeginIntegration ==
  /\ pc = "for"
  /\ i < args.T
  /\ D' = DataSlice(i)
  /\ median' = MedianImage
  /\ M' = FreshMask
  /\ isnewprofile' = TRUE
  /\ npass' = 0
  /\ nflag' = 0
  /\ pc' = "while"
  /\ UNCHANGED <<args, Q, i, P, y1x1, f, var_f, extracted_spectra, extracted_error,
                 result>>
  /\ UNCHANGED mvars

\* line 342: after the last integration the two arrays are returned
Return ==
  /\ pc = "for"
  /\ i = args.T
  /\ result' = "arrays"
  /\ pc' = "done"
  /\ UNCHANGED <<args, Q, i, D, median, M, P, y1x1, isnewprofile, f, var_f,
                 extracted_spectra, extracted_error, npass, nflag>>
  /\ UNCHANGED mvars

\* the call ends without its arrays: with a message returned in their place
\* (lines 280, 289, 292) or with an exception
Quit(how) ==
  /\ result' = how
  /\ pc' = "done"
  /\ UNCHANGED <<args, Q, i, D, median, M, P, y1x1, isnewprofile, f, var_f,
                 extracted_spectra, extracted_error, npass, nflag>>
  /\ UNCHANGED mvars

\* what the caller holds of the spectra once the call has ended
CallerSpectra == IF result = "arrays" THEN extracted_spectra ELSE <<>>

CallerError == IF result = "arrays" THEN extracted_error ELSE <<>>

\* line 270: profile_niriss_median(data, medprof, sigma=50) is called with
\* one positional argument, so the call raises TypeError
PassTypeError ==
  /\ pc = "while"
  /\ args.proftype = "median"
  /\ Quit("TypeError")

\* lines 275-280 and 284-289
PassMissingPos ==
  /\ pc = "while"
  /\ args.proftype \in {"gaussian", "moffat"}
  /\ ~(args.has_pos1 /\ args.has_pos2)
  /\ Quit("Please pass in pos1 and pos2 arguments.")

\* lines 291-292
PassUnknownType ==
  /\ pc = "while"
  /\ args.proftype \notin {"median", "gaussian", "moffat"}
  /\ Quit("Mask profile type not implemeted.")

\* a pass that builds without looking at pos1 and pos2
CanBuildAnyPos ==
  /\ pc = "while"
  /\ args.proftype \in {"gaussian", "moffat"}

\* the pass has a profile strategy to run
CanBuild ==
  /\ pc = "while"
  /\ args.proftype \in {"gaussian", "moffat"}
  /\ args.has_pos1 /\ args.has_pos2

\* sky_bkg[i] exists
HasBkg == ~args.short_bkg \/ i < args.T - 1

\* lines 276, 285: sky_bkg[i] with i beyond the end of sky_bkg
PassIndexError ==
  /\ CanBuild
  /\ ~HasBkg
  /\ Quit("IndexError")

\* lines 276, 285: median - sky_bkg[i] with shapes that do not broadcast
PassValueError ==
  /\ CanBuild
  /\ HasBkg
  /\ ~ShapesOK
  /\ Quit("ValueError")

\* lines 267-296: the profile is built on the masked image and normalized,
\* and isnewprofile is cleared
BuildProfile ==
  /\ CanBuild
  /\ HasBkg
  /\ ShapesOK
  /\ P' = Profile(median, M)
  /\ isnewprofile' = FALSE
  /\ npass' = Min(npass + 1, MaxPass)
  /\ pc' = "revise"
  /\ UNCHANGED <<args, Q, i, D, median, M, y1x1, f, var_f, extracted_spectra,
                 extracted_error, result, nflag>>
  /\ UNCHANGED mvars

\* line 299: the name Q is looked up and not found
PassNameError ==
  /\ pc = "revise"
  /\ Q = <<>>
  /\ Quit("NameError")

\* a mask rebuilt from the pixels found in this pass alone
MaskOutRebuilt(mask, S) == [p \in Pix |-> IF p \in S THEN 0 ELSE 1]

\* the mask with the pixels of S set to 0 (line 317)
MaskOut(mask, S) == [p \in Pix |-> IF p \in S THEN 0 ELSE mask[p]]

\* lines 298-303: the variance is revised and the pixels above the
\* threshold are looked up
Revise ==
  /\ pc = "revise"
  /\ Q # <<>>
  /\ y1x1' = Flagged(D, P, M, i)
  /\ pc' = "if"
  /\ UNCHANGED <<args, Q, i, D, median, M, P, isnewprofile, f, var_f,
                 extracted_spectra, extracted_error, result, npass, nflag>>
  /\ UNCHANGED mvars

\* no pass is taken to have found pixels
FoundNever == y1x1 # y1x1

\* line 316: len(y1)>0 or len(x1)>0
Found == y1x1 # {}

\* lines 316-318: a pass that has found pixels masks them and asks for
\* another pass
PassFlag ==
  /\ pc = "if"
  /\ Found
  /\ M' = MaskOut(M, y1x1)
  /\ nflag' = Cardinality({p \in y1x1 : M[p] = 1})
  /\ isnewprofile' = TRUE
  /\ pc' = "while"
  /\ UNCHANGED <<args, Q, i, D, median, P, y1x1, f, var_f, extracted_spectra,
                 extracted_error, result, npass>>
  /\ UNCHANGED mvars

\* lines 321-329: a pass that has found no pixel applies the static mask
\* and extracts the spectrum; the loop ends
PassExtract ==
  /\ pc = "if"
  /\ ~Found
  /\ LET v == Variance(P, i)
         img == ApplyCrMask(D, i)
     IN /\ D' = img
        /\ f' = [c \in SliceCols |-> Flux(img, P, v, M, c)]
        /\ var_f' = [c \in SliceCols |-> FluxVar(P, v, M, c)]
  /\ nflag' = 0
  /\ pc' = "row"
  /\ UNCHANGED <<args, Q, i, median, M, P, y1x1, isnewprofile,
                 extracted_spectra, extracted_error, result, npass>>
  /\ UNCHANGED mvars

\* a row of the output filled from an array of nx values (numpy assignment)
RowFrom(vals) == [x \in 0..(args.X - 1) |-> vals[IF Nx = 1 THEN 0 ELSE x]]

\* lines 339-340: the row of integration i is written
WriteRow ==
  /\ pc = "row"
  /\ AxisOK(args.X, Nx) /\ (Nx = args.X \/ Nx = 1)
  /\ extracted_spectra' = [extracted_spectra EXCEPT ![i] = RowFrom(f)]
  /\ extracted_error' = [extracted_error EXCEPT ![i] = RowFrom(var_f)]
  /\ i' = i + 1
  /\ pc' = "for"
  /\ UNCHANGED <<args, Q, D, median, M, P, y1x1, isnewprofile, f, var_f, result,
                 npass, nflag>>
  /\ UNCHANGED mvars

\* line 339: f has the columns of the slice, the row those of the frame
WriteRowValueError ==
  /\ pc = "row"
  /\ ~(Nx = args.X \/ Nx = 1)
  /\ Quit("ValueError")

NextX ==
  \/ Call
  \/ BeginIntegration
  \/ PassTypeError
  \/ PassMissingPos
  \/ PassUnknownType
  \/ PassIndexError
  \/ PassValueError
  \/ BuildProfile
  \/ PassNameError
  \/ Revise
  \/ PassFlag
  \/ PassExtract
  \/ WriteRow
  \/ WriteRowValueError
  \/ Return

Spec == InitX /\ [][NextX]_xvars

\* a step of the call: every step of NextX moves pc, and one can be taken in
\* every state short of "done"
Advance ==
  /\ pc # "done"
  /\ pc' \in {"for", "while", "revise", "if", "row", "done"}
  /\ pc' # pc

\* the same steps, with the call never left standing where it can go on
FairSpec == Spec /\ WF_pc(Advance)

(***************************************************************************)
(* Properties of optimal_extraction.                                       *)
(***************************************************************************)
NGood(mask) == Cardinality({p \in DOMAIN mask : mask[p] = 1})

NPix(mask) == Cardinality(DOMAIN mask)

IsGood(p) == M[p] = 1

\* the call has a profile strategy, its trace positions, a gain under the
\* name Q and a background per integration
WellFormed ==
  /\ args.proftype \in {"gaussian", "moffat"}
  /\ args.has_pos1 /\ args.has_pos2
  /\ Q # <<>>
  /\ ~args.short_bkg

\* C1: within one integration the cosmic-ray mask only goes from good to
\* bad: the mask is all-good when the loop of an integration is entered, no
\* step of the integration turns a bad pixel good, and the number of good
\* pixels never grows.
C1_MaskMonotone ==
  [][/\ (pc = "for" /\ pc' = "while") => NGood(M') = NPix(M')
     /\ (pc \in {"while", "revise", "if", "row"}) =>
          /\ DOMAIN M' = DOMAIN M
          /\ \A p \in DOMAIN M : M[p] = 0 => M'[p] = 0
          /\ NGood(M') <= NGood(M)]_xvars

\* two passes of one integration have each flagged pixels, at a threshold
\* that is not negative
C1_Witness ==
  /\ pc = "row"
  /\ npass >= 3
  /\ args.sigma[1] >= 0
  /\ NGood(M) <= NPix(M) - 2

\* C2: the convergence loop of every integration is bounded, so every call
\* comes to its end (with the spectra, a message or an exception).
C2_LoopEnds == <>(pc = "done")

\* the profile arguments name no strategy, or name a parametric one without
\* both trace positions
BadProfileConfig ==
  \/ args.proftype \notin {"median", "gaussian", "moffat"}
  \/ /\ args.proftype \in {"gaussian", "moffat"}
     /\ ~(args.has_pos1 /\ args.has_pos2)

ConfigMessages ==
  {"Please pass in pos1 and pos2 arguments.",
   "Mask profile type not implemeted."}

\* C3: a call with an unknown profile strategy, or with gaussian or moffat
\* and pos1 or pos2 missing, ends with a configuration message in place of
\* the (spectra, errors) pair; the message comes in the first pass of the
\* first integration, before any profile is built or any spectrum is
\* extracted, and nothing follows it.
C3_ConfigError ==
  BadProfileConfig =>
    /\ pc \in {"call", "for", "while", "done"}
    /\ i = 0 /\ npass = 0
    /\ f = <<>> /\ var_f = <<>>
    /\ pc = "while" =>
         /\ ENABLED (PassMissingPos \/ PassUnknownType)
         /\ ~ENABLED (BuildProfile \/ PassTypeError \/ PassIndexError
                        \/ PassValueError)
    /\ pc = "done" =>
         /\ result \in ConfigMessages
         /\ result # "arrays"
         /\ CallerSpectra = <<>> /\ CallerError = <<>>
         /\ ~ENABLED NextX

C3_Witness ==
  /\ BadProfileConfig
  /\ pc = "done"
  /\ result \in ConfigMessages

\* C4: in the final extraction a pixel marked bad adds nothing to the
\* numerator, to the denominator or to the variance sum: flux and variance
\* are the sums over the good pixels of each column alone.
C4_MaskedExcluded ==
  pc = "row" =>
    LET v == Variance(P, i)
        good(c) == SelectSeq(ColPix(c), IsGood)
        num(c) ==
          NanSum([p \in Pix |-> Div(Mul(P[p], Sub(D[p], Sky)), v[p])], good(c))
        den(c) == NanSum([p \in Pix |-> Div(Mul(P[p], P[p]), v[p])], good(c))
        wgt(c) == NanSum(P, good(c))
    IN \A c \in SliceCols :
         /\ f[c] = Div(num(c), den(c))
         /\ var_f[c] = Div(wgt(c), den(c))

\* an extraction with a bad pixel whose term would have counted, in a column
\* that has a good pixel too
C4_Witness ==
  /\ pc = "row"
  /\ \E p \in Pix :
       /\ M[p] = 0
       /\ IsFinite(P[p]) /\ P[p] # R(0)
       /\ Sub(D[p], Sky) # R(0)
       /\ \E q \in Pix : q[2] = p[2] /\ M[q] = 1

\* C5: with sigma infinite every integration takes one pass and flags no
\* pixel (the mask stays all-good), and the flux and variance written to
\* the row are the variance-weighted sums over every pixel of the column of
\* the image that is extracted.
C5_InfiniteSigma ==
  args.sigma = PInf =>
    /\ NGood(M) = NPix(M)
    /\ nflag = 0
    /\ pc = "while" => npass = 0
    /\ pc \in {"revise", "if", "row"} => npass = 1
    /\ pc = "row" =>
         LET v == Variance(P, i)
             num(c) ==
               NanSum([p \in Pix |-> Div(Mul(P[p], Sub(D[p], Sky)), v[p])],
                      ColPix(c))
             den(c) ==
               NanSum([p \in Pix |-> Div(Mul(P[p], P[p]), v[p])], ColPix(c))
         IN \A c \in SliceCols :
              /\ f[c] = Div(num(c), den(c))
              /\ var_f[c] = Div(NanSum(P, ColPix(c)), den(c))
    /\ (pc \in {"for", "done"} /\ i > 0 /\ result \in {"none", "arrays"}) =>
         /\ extracted_spectra[i - 1] = RowFrom(f)
         /\ extracted_error[i - 1] = RowFrom(var_f)

\* a call at sigma infinite has returned the rows of two integrations
C5_Witness ==
  /\ args.sigma = PInf
  /\ result = "arrays"
  /\ i = 2
  /\ \E c \in SliceCols : IsFinite(f[c]) /\ f[c] # R(0)

\* C6: for each of the four region selectors a well-formed call on a frame
\* that reaches into the region ends with its two arrays, each of T rows of
\* X values.
C6_EveryQuadCompletes ==
  (pc = "done" /\ WellFormed /\ args.quad \in {1, 2, 3, 4}
     /\ Ny > 0 /\ Nx > 0) =>
    /\ result = "arrays"
    /\ DOMAIN CallerSpectra = 0..(args.T - 1)
    /\ \A t \in 0..(args.T - 1) :
         /\ DOMAIN CallerSpectra[t] = 0..(args.X - 1)
         /\ DOMAIN CallerError[t] = 0..(args.X - 1)

\* C7: when a call ends at integration i the rows of the integrations
\* before i are in the caller's hands as they were written.
C7_PriorRowsKept ==
  (pc = "done" /\ i >= 1) =>
    \A t \in 0..(i - 1) :
      /\ t \in DOMAIN CallerSpectra
      /\ CallerSpectra[t] = extracted_spectra[t]
      /\ CallerError[t] = extracted_error[t]

\* the mask and profile the loop of integration t ends with when it starts
\* from a mask of ones, in at most fuel flagging passes
RECURSIVE Converged(_, _, _)
Converged(mask, t, fuel) ==
  LET prof == Profile(MedianImage, mask)
      hit == Flagged(DataSlice(t), prof, mask, t)
  IN IF hit = {} \/ fuel = 0 THEN [M |-> mask, P |-> prof]
     ELSE Converged(MaskOut(mask, hit), t, fuel - 1)

\* the flux and variance of integration t extracted on its own
Alone(t) ==
  LET e == Converged([p \in Pix |-> 1], t, Ny * Nx)
      v == Variance(e.P, t)
      img == ApplyCrMask(DataSlice(t), t)
  IN [f |-> [c \in SliceCols |-> Flux(img, e.P, v, e.M, c)],
      var_f |-> [c \in SliceCols |-> FluxVar(e.P, v, e.M, c)]]

\* C8: no mask or profile is carried from one integration to the next: the
\* row just written for an integration is what extracting that integration
\* on its own, from a mask of ones, gives, whatever the integrations before
\* it flagged.
C8_RowsIndependent ==
  (pc = "for" /\ i >= 1) =>
    LET a == Alone(i - 1)
    IN /\ extracted_spectra[i - 1] = RowFrom(a.f)
       /\ extracted_error[i - 1] = RowFrom(a.var_f)

\* a second integration has been written after a first one that flagged
\* pixels the second one does not flag
C8_Witness ==
  /\ pc = "for"
  /\ i = 2
  /\ Converged([p \in Pix |-> 1], 0, Ny * Nx).M
       # Converged([p \in Pix |-> 1], 1, Ny * Nx).M

\* C9: after the normalization the profile of every column that has a good
\* pixel sums to 1.
C9_ColumnsNormalized ==
  pc = "revise" =>
    \A c \in SliceCols :
      (\E p \in Pix : p[2] = c /\ M[p] = 1) => NanSum(P, ColPix(c)) = R(1)

(***************************************************************************)
(* CompositePyMC3Model.eval and the time setter (PyMC3Models.py 427-458,   *)
(* 583-600) over components that evaluate as StepModel does (StepModel.py  *)
(* 87-110).                                                                *)
(***************************************************************************)
\* no extraction is in progress
IdleX ==
  /\ args = <<>>
  /\ Q = <<>>
  /\ pc = "idle"
  /\ i = 0
  /\ D = <<>>
  /\ median = <<>>
  /\ M = <<>>
  /\ P = <<>>
  /\ y1x1 = {}
  /\ isnewprofile = FALSE
  /\ f = <<>>
  /\ var_f = <<>>
  /\ extracted_spectra = <<>>
  /\ extracted_error = <<>>
  /\ result = "none"
  /\ npass = 0
  /\ nflag = 0

\* StepModel.py 46-47: steps and steptimes have 10 slots per channel
NSlots == 10

\* the sum of s[k] over the indices k of S
RECURSIVE SumOver(_, _)
SumOver(s, S) ==
  IF S = {} THEN 0
  ELSE LET k == CHOOSE j \in S : TRUE IN s[k] + SumOver(s, S \ {k})

\* StepModel.eval, lines 105-110: per channel, 1 plus the heights of the
\* steps (those that are not 0) whose time has come; flattened channel after
\* channel
StepModelEval(c) ==
  LET nt == Len(c.time)
  IN [k \in 1..(c.nchan * nt) |->
        LET ch == (k - 1) \div nt
            t == c.time[((k - 1) % nt) + 1]
        IN 1 + SumOver(c.steps[ch],
                       {s \in 0..(NSlots - 1) :
                          c.steps[ch][s] # 0 /\ t >= c.steptimes[ch][s]})]

\* every component is multiplied in, noise or not
ContributesAll(c) == c.modeltype = c.modeltype

\* line 455: the components eval multiplies in
Contributes(c) == c.modeltype # "GP"

\* line 456, flux *= v: numpy multiplies in place an array of n values by one
\* of n values or of 1 value
CanMulInPlace(n, m) == m = n \/ m = 1

MulInPlace(fl, v) ==
  [k \in 1..Len(fl) |-> fl[k] * v[IF Len(v) = 1 THEN 1 ELSE k]]

\* a component that is itself a composite
IsComposite(c) == "components" \in DOMAIN c

\* component.time = t: lines 119-127 for a model, lines 588-600 for a
\* composite, which hands the array to every component of its own
RECURSIVE SetTimeOf(_, _)
SetTimeOf(c, t) ==
  IF IsComposite(c)
  THEN [c EXCEPT !.time = t,
                 !.components = [k \in 1..Len(@) |-> SetTimeOf(@[k], t)]]
  ELSE [c EXCEPT !.time = t]

\* lines 588-600: the array is stored and handed to every component
SetAll(comps, t) == [k \in 1..Len(comps) |-> SetTimeOf(comps[k], t)]

RECURSIVE ComponentEval(_)

\* lines 452-456 from component k on: the time of a component that has none
\* is filled in, and the eval of a contributing component is multiplied in
RECURSIVE EvalLoop(_, _, _, _, _)
EvalLoop(comps, t, fl, called, k) ==
  IF k > Len(comps)
  THEN [components |-> comps, flux |-> fl, calls |-> called, raised |-> "none"]
  ELSE LET c == IF comps[k].time = None THEN SetTimeOf(comps[k], t)
                ELSE comps[k]
       IN IF ~Contributes(c)
          THEN EvalLoop([comps EXCEPT ![k] = c], t, fl, called, k + 1)
          ELSE LET e == ComponentEval(c)
                   comps1 == [comps EXCEPT ![k] = e.component]
               IN IF e.raised = "none" /\ CanMulInPlace(Len(fl), Len(e.flux))
                  THEN EvalLoop(comps1, t, MulInPlace(fl, e.flux),
                                Append(called, k), k + 1)
                  ELSE [components |-> comps1, flux |-> <<>>,
                        calls |-> Append(called, k),
                        raised |-> IF e.raised = "none" THEN "ValueError"
                                   ELSE e.raised]

\* component.eval(...) of a component whose time is set: StepModel.eval for
\* a step model, lines 449-458 for a composite
ComponentEval(c) ==
  IF IsComposite(c)
  THEN LET r == EvalLoop(c.components, c.time,
                         [k \in 1..(Len(c.time) * c.nchan) |-> 1], <<>>, 1)
       IN [component |-> [c EXCEPT !.components = r.components],
           flux |-> r.flux, raised |-> r.raised]
  ELSE [component |-> c, flux |-> StepModelEval(c), raised |-> "none"]

\* lines 445-458: eval with the keyword argument time = kw (None when the
\* caller passes none)
EvalCall(kw) ==
  /\ IF time = None /\ kw = None
     THEN \* line 447: self.time = None; the setter raises at line 593
          /\ raised' = "TypeError"
          /\ flux' = <<>>
          /\ calls' = <<>>
          /\ UNCHANGED <<time, components>>
     ELSE LET t == IF time = None THEN kw ELSE time
              comps == IF time = None THEN SetAll(components, kw)
                       ELSE components
              ones == [k \in 1..(Len(t) * nchan) |-> 1]
              r == EvalLoop(comps, t, ones, <<>>, 1)
          IN /\ time' = t
             /\ components' = r.components
             /\ flux' = r.flux
             /\ calls' = r.calls
             /\ raised' = r.raised
  /\ op' = "eval"
  /\ new_time' = None
  /\ UNCHANGED nchan
  /\ UNCHANGED <<pvars, uvars, svars>>
  /\ UNCHANGED xvars

\* every component that is not noise is multiplied in, whatever the kind
SelectedNotNoise(c, kind) == c.modeltype # "GP" /\ kind = kind

\* lines 486 and 535: the components syseval ('systematic') and physeval
\* ('physical') multiply in
Selected(c, kind) == c.modeltype = kind

\* lines 485-489 and 534-542 (interp false) from component k on: the eval of
\* a component of the kind is multiplied in, its time filled in when it has
\* none
RECURSIVE KindLoop(_, _, _, _, _, _)
KindLoop(comps, t, fl, called, k, kind) ==
  IF k > Len(comps)
  THEN [components |-> comps, flux |-> fl, calls |-> called, raised |-> "none"]
  ELSE IF ~Selected(comps[k], kind)
       THEN KindLoop(comps, t, fl, called, k + 1, kind)
       ELSE LET c == IF comps[k].time = None
                     THEN SetTimeOf(comps[k], t) ELSE comps[k]
                e == ComponentEval(c)
                comps1 == [comps EXCEPT ![k] = e.component]
            IN IF e.raised = "none" /\ CanMulInPlace(Len(fl), Len(e.flux))
               THEN KindLoop(comps1, t, MulInPlace(fl, e.flux),
                             Append(called, k), k + 1, kind)
               ELSE [components |-> comps1, flux |-> <<>>,
                     calls |-> Append(called, k),
                     raised |-> IF e.raised = "none" THEN "ValueError"
                                ELSE e.raised]

\* lines 478-491 (syseval) and 519-545 with interp false (physeval), called
\* with the keyword argument time = kw
KindEval(kw, kind) ==
  /\ IF time = None /\ kw = None
     THEN /\ raised' = "TypeError"
          /\ flux' = <<>>
          /\ calls' = <<>>
          /\ new_time' = None
          /\ UNCHANGED <<time, components>>
     ELSE LET t == IF time = None THEN kw ELSE time
              comps == IF time = None THEN SetAll(components, kw)
                       ELSE components
              ones == [k \in 1..(Len(t) * nchan) |-> 1]
              r == KindLoop(comps, t, ones, <<>>, 1, kind)
          IN /\ time' = t
             /\ components' = r.components
             /\ flux' = r.flux
             /\ calls' = r.calls
             /\ raised' = r.raised
             /\ new_time' = IF kind = "physical" /\ r.raised = "none"
                             THEN t ELSE None
  /\ UNCHANGED nchan
  /\ UNCHANGED <<pvars, uvars, svars>>
  /\ UNCHANGED xvars

\* lines 460-491
SysEval(kw) ==
  /\ KindEval(kw, "systematic")
  /\ op' = "syseval"

\* lines 493-545, interp = False
PhysEval(kw) ==
  /\ KindEval(kw, "physical")
  /\ op' = "physeval"

\* lines 588-600: composite.time = t
SetTime(t) ==
  /\ time' = t
  /\ components' = SetAll(components, t)
  /\ flux' = <<>>
  /\ calls' = <<>>
  /\ raised' = "none"
  /\ op' = "time"
  /\ new_time' = None
  /\ UNCHANGED nchan
  /\ UNCHANGED <<pvars, uvars, svars>>
  /\ UNCHANGED xvars

\* the numbers of channels tried
Chans == {1, 2}

\* the time arrays tried
Times == {<<0, 2>>, <<1, 2, 3>>}

\* the time a composite may be given when it is made
CompositeTimes == {None, <<0, 2>>}

\* lines 46-50: the tables of n channels and NSlots slots that the
\* construction leaves, v giving the slots 0 and 1 of the even and of the odd
\* channels, every other slot being 0
StepTable(n, v) ==
  [c \in 0..(n - 1) |-> [s \in 0..(NSlots - 1) |->
                           IF s <= 1 THEN v[(c % 2) + 1][s + 1] ELSE 0]]

\* the step models tried: two steps in the even channels and one in the odd
\* ones; one step in every channel, downwards in the odd ones
StepsUp ==
  [steps |-> <<<<1, 2>>, <<2, 0>>>>, steptimes |-> <<<<1, 3>>, <<2, 0>>>>]
StepsDown ==
  [steps |-> <<<<2, 0>>, <<-3, 0>>>>, steptimes |-> <<<<2, 0>>, <<3, 0>>>>]
StepChoices == {StepsUp, StepsDown}

\* the components tried: one made without a time, one made with a time
Makes == {<<None, StepsUp>>, <<<<1, 2, 3>>, StepsDown>>}

ModelTypes == {"physical", "systematic", "GP"}

\* the components a composite of n channels may own
Components(n) ==
  {[modeltype |-> mt, nchan |-> n, time |-> mk[1],
    steps |-> StepTable(n, mk[2].steps),
    steptimes |-> StepTable(n, mk[2].steptimes)] :
     mt \in ModelTypes, mk \in Makes}

\* the lists of at most MaxComp components
ComponentLists(n) ==
  UNION {[1..len -> Components(n)] : len \in 0..MaxComp}

\* after construction: the components are stored as given (line 285); a time
\* passed to the constructor reaches the composite alone, the list of
\* components being empty when it is set (lines 51-59)
InitM ==
  /\ nchan \in Chans
  /\ time \in CompositeTimes
  /\ components \in ComponentLists(nchan)
  /\ flux = <<>>
  /\ raised = "none"
  /\ calls = <<>>
  /\ op = "none"
  /\ new_time = None
  /\ IdleP
  /\ IdleU
  /\ IdleS
  /\ IdleX

NextM ==
  \/ \E kw \in {None} \cup Times : EvalCall(kw)
  \/ \E kw \in {None} \cup Times : SysEval(kw)
  \/ \E kw \in {None} \cup Times : PhysEval(kw)
  \/ \E t \in Times : SetTime(t)

SpecM == InitM /\ [][NextM]_mvars

(***************************************************************************)
(* Properties of CompositePyMC3Model.                                      *)
(***************************************************************************)
\* the product of s[k] over the indices k of S
RECURSIVE ProdOver(_, _)
ProdOver(s, S) ==
  IF S = {} THEN 1
  ELSE LET k == CHOOSE j \in S : TRUE IN s[k] * ProdOver(s, S \ {k})

\* the number of times k appears in the sequence s
Count(s, k) == Cardinality({j \in 1..Len(s) : s[j] = k})

\* the components that are not noise
NonNoise == {k \in 1..Len(components) : components[k].modeltype # "GP"}

\* C10: an eval that returns gives len(time)*nchan values, each the product
\* of the values at that place of the evals of the components that are not
\* 'GP'; the eval of each such component is called once and that of a 'GP'
\* component never; with no such component the result is all ones.
C10_EvalIsProduct ==
  (op = "eval" /\ flux # <<>>) =>
    /\ raised = "none"
    /\ Len(flux) = Len(time) * nchan
    /\ \A k \in 1..Len(components) :
         Count(calls, k) = IF k \in NonNoise THEN 1 ELSE 0
    /\ \A j \in 1..Len(flux) :
         flux[j] =
           ProdOver([k \in 1..Len(components) |->
                       LET v == StepModelEval(components[k])
                       IN v[IF Len(v) = 1 THEN 1 ELSE j]],
                    NonNoise)
    /\ NonNoise = {} => \A j \in 1..Len(flux) : flux[j] = 1

\* an eval has returned the product of two components that are not noise,
\* next to a noise component whose eval is not all ones
C10_Witness ==
  /\ op = "eval"
  /\ flux # <<>>
  /\ Cardinality(NonNoise) >= 2
  /\ \E j \in 1..Len(flux) : flux[j] \notin {0, 1}
  /\ \E k \in 1..Len(components) :
       /\ components[k].modeltype = "GP"
       /\ \E j \in 1..Len(flux) : StepModelEval(components[k])[j] # 1

\* the components of the kind
OfKind(kind) ==
  {k \in 1..Len(components) : components[k].modeltype = kind}

\* the product, place by place, of the evals of the components in S
ProductOf(S) ==
  [j \in 1..(Len(time) * nchan) |->
     ProdOver([k \in 1..Len(components) |->
                 LET v == StepModelEval(components[k])
                 IN v[IF Len(v) = 1 THEN 1 ELSE j]], S)]

\* C11: a syseval that returns gives the product of the evals of exactly the
\* 'systematic' components, and a physeval without resampling that of
\* exactly the 'physical' ones (with the time axis as the grid); the eval of
\* a component of another category is not called.
C11_KindProducts ==
  /\ (op = "syseval" /\ flux # <<>>) =>
       /\ flux = ProductOf(OfKind("systematic"))
       /\ \A k \in 1..Len(components) :
            Count(calls, k) = IF k \in OfKind("systematic") THEN 1 ELSE 0
  /\ (op = "physeval" /\ flux # <<>>) =>
       /\ flux = ProductOf(OfKind("physical"))
       /\ new_time = time
       /\ \A k \in 1..Len(components) :
            Count(calls, k) = IF k \in OfKind("physical") THEN 1 ELSE 0

\* a syseval has returned for a composite of a systematic, a physical and a
\* noise component, and the result differs from what eval gives
C11_Witness ==
  /\ op = "syseval"
  /\ flux # <<>>
  /\ \A kind \in ModelTypes : OfKind(kind) # {}
  /\ \E j \in 1..Len(flux) : flux[j] \notin {0, 1}
  /\ flux # ProductOf(NonNoise)

(***************************************************************************)
(* update (PyMC3Models.py 177-193, 569-581) on a composite of step models  *)
(* built from their parameters (StepModel.py 45-85).                       *)
(***************************************************************************)
\* the parameter name base + str(num), followed by '_' + str(suffix[1]) when
\* there is a suffix: Key("step", 0, <<1>>) is 'step0_1'
Key(base, num, suffix) == [base |-> base, num |-> num, suffix |-> suffix]

\* the names of step parameters in use, letter by letter; a name outside
\* does not start with 'step' (StepModel.py 49)
Spelling ==
  [name \in {"step0", "step1", "steptime0", "step0_1", "steptime0_1"} |->
     CASE name = "step0" -> Key("step", 0, <<>>)
       [] name = "step1" -> Key("step", 1, <<>>)
       [] name = "steptime0" -> Key("steptime", 0, <<>>)
       [] name = "step0_1" -> Key("step", 0, <<1>>)
       [] name = "steptime0_1" -> Key("steptime", 0, <<1>>)]

\* len(str(n)) and 10**k
NDigits(n) == IF n < 10 THEN 1 ELSE IF n < 100 THEN 2 ELSE IF n < 1000 THEN 3
              ELSE IF n < 10000 THEN 4 ELSE 5
Pow10(k) == IF k <= 0 THEN 1 ELSE IF k = 1 THEN 10 ELSE 100

\* StepModel.py 73-78: split_key = key.split('_'), and len(split_key[0])
HeadLen(key) == (IF key.base = "step" THEN 4 ELSE 8) + NDigits(key.num)

\* lines 74-77: the channel of the key
KeyChan(key) == IF Len(key.suffix) = 0 THEN 0 ELSE key.suffix[1]

\* lines 78-85: the slot written, int(split_key[0][4:]) for a head shorter
\* than 9 characters and int(split_key[0][8:]) otherwise
KeySlot(key) ==
  IF HeadLen(key) < 9 \/ key.base = "steptime" THEN key.num
  ELSE key.num % Pow10(HeadLen(key) - 8)

\* lines 46-50 and 72-85: the tables of n channels read from the dict of
\* values by name
ParseCoeffs(dict, n) ==
  LET Table(short) ==
        [c \in 0..(n - 1) |-> [s \in 0..(NSlots - 1) |->
           LET ks == {name \in DOMAIN dict \cap DOMAIN Spelling :
                        /\ (HeadLen(Spelling[name]) < 9) = short
                        /\ KeyChan(Spelling[name]) = c
                        /\ KeySlot(Spelling[name]) = s}
           IN IF ks = {} THEN 0 ELSE dict[CHOOSE name \in ks : TRUE]]]
  IN [steps |-> Table(TRUE), steptimes |-> Table(FALSE)]

\* PyMC3Models.py 63-65: fit holds the value of every parameter of the dict
NewFit(reg) == [key \in DOMAIN reg.dict |-> reg.obj[key].value]

\* lines 188-191 from position n on: the dict entry and the Parameter of
\* each name are written; a name the dict lacks raises KeyError
RECURSIVE UpdateRegistry(_, _, _, _)
UpdateRegistry(reg, names, vals, n) ==
  IF n > Min(Len(vals), Len(names)) THEN [reg |-> reg, raised |-> "none"]
  ELSE IF names[n] \notin DOMAIN reg.dict
       THEN [reg |-> reg, raised |-> "KeyError"]
       ELSE UpdateRegistry(
              [dict |-> [reg.dict EXCEPT ![names[n]] = vals[n]],
               obj |-> [reg.obj EXCEPT ![names[n]].value = vals[n]]],
              names, vals, n + 1)

\* only the first pair is written to fit
UpdateFitFirst(cache, names, vals) ==
  IF Len(vals) = 0 \/ Len(names) = 0 THEN cache
  ELSE [key \in DOMAIN cache \cup {names[1]} |->
          IF key = names[1] THEN vals[1] ELSE cache[key]]

\* lines 192-193: setattr(self.fit, key, val) for every pair
UpdateFit(cache, names, vals) ==
  LET n == Min(Len(vals), Len(names))
      set == {names[k] : k \in 1..n}
  IN [key \in DOMAIN cache \cup set |->
        IF key \in set
        THEN vals[CHOOSE k \in 1..n :
                    names[k] = key /\ \A j \in (k + 1)..n : names[j] # key]
        ELSE cache[key]]

\* lines 579-581 from component k on, each component.update being lines
\* 188-193 with the component's own freenames, parameters and fit
RECURSIVE UpdateLoop(_, _, _, _)
UpdateLoop(comps, regs, vals, k) ==
  IF k > Len(comps)
  THEN [components |-> comps, registries |-> regs, raised |-> "none"]
  ELSE LET c == comps[k]
       IN IF c.freenames = None
          THEN [components |-> comps, registries |-> regs,
                raised |-> "TypeError"]
          ELSE LET r == UpdateRegistry(regs[c.parameters], c.freenames,
                                       vals, 1)
                   regs1 == [regs EXCEPT ![c.parameters] = r.reg]
               IN IF r.raised # "none"
                  THEN [components |-> comps, registries |-> regs1,
                        raised |-> r.raised]
                  ELSE UpdateLoop(
                         [comps EXCEPT ![k].fit =
                                         UpdateFit(c.fit, c.freenames, vals)],
                         regs1, vals, k + 1)

\* lines 569-581: composite.update(vals)
Update(vals) ==
  LET r == UpdateLoop(components, registries, vals, 1)
  IN /\ components' = r.components
     /\ registries' = r.registries
     /\ raised' = r.raised
     /\ newparams' = vals
     /\ op' = "update"
     /\ flux' = <<>>
     /\ calls' = <<>>
     /\ new_time' = None
     /\ UNCHANGED <<time, nchan, parameters, fit, freenames, uvars, svars>>
     /\ UNCHANGED xvars

\* the parameters of step models of n channels, one step per channel, next
\* to the orbital parameters the composite reads when it is made
StepRegistry(n) ==
  LET vals == [name \in {"a", "Rs", "per", "Ms", "step0", "steptime0"} \cup
                        (IF n > 1 THEN {"step0_1", "steptime0_1"} ELSE {})
                 |-> CASE name = "a" -> 10
                       [] name = "per" -> 3
                       [] name \in {"Rs", "Ms", "step0"} -> 1
                       [] OTHER -> 2]
  IN [dict |-> vals, obj |-> [name \in DOMAIN vals |-> [value |-> vals[name]]]]

\* the lists of free names tried; 'step1' is no parameter of the registry
FreeNameLists ==
  {<<"step0">>, <<"steptime0", "step0">>, <<"step0", "step1">>}

\* the values update is called with
NewParams == {<<2>>, <<3, 1>>, <<1, 0>>}

\* a step model made from the registry id of regs (StepModel.py 9-50,
\* PyMC3Models.py 41-65)
StepComponent(regs, id, n, names) ==
  [modeltype |-> "systematic", nchan |-> n, time |-> None,
   steps |-> ParseCoeffs(regs[id].dict, n).steps,
   steptimes |-> ParseCoeffs(regs[id].dict, n).steptimes,
   parameters |-> id, fit |-> NewFit(regs[id]), freenames |-> names]

\* after construction of the step models and of the composite over them:
\* all on one Parameters object, or each on its own
InitU ==
  /\ nchan \in Chans
  /\ time \in Times
  /\ freenames \in FreeNameLists
  /\ \E len \in 1..MaxComp, shared \in BOOLEAN :
       /\ registries = [id \in 1..(IF shared THEN 1 ELSE len + 1) |->
                          StepRegistry(nchan)]
       /\ components = [k \in 1..len |->
                          StepComponent(registries, IF shared THEN 1 ELSE k + 1,
                                        nchan, freenames)]
  /\ parameters = 1
  /\ fit = NewFit(registries[parameters])
  /\ newparams = <<>>
  /\ flux = <<>>
  /\ raised = "none"
  /\ calls = <<>>
  /\ op = "none"
  /\ new_time = None
  /\ IdleU
  /\ IdleS
  /\ IdleX

NextU ==
  \/ \E vals \in NewParams : Update(vals)
  \/ EvalCall(None)

SpecU == InitU /\ [][NextU]_mvars

\* the first values of newparams are bound, name by name of names, in the
\* registry id (dict entry and Parameter) and in the cache
Bound(id, cache, names) ==
  \A k \in 1..Min(Len(names), Len(newparams)) :
    /\ names[k] \in DOMAIN registries[id].dict
    /\ registries[id].dict[names[k]] = newparams[k]
    /\ registries[id].obj[names[k]].value = newparams[k]
    /\ names[k] \in DOMAIN cache
    /\ cache[names[k]] = newparams[k]

\* C12: after an update that returns, the new values are bound by position
\* of freenames in the registry and in fit alike, for the composite itself
\* and for every component.
C12_ViewsAgree ==
  (op = "update" /\ raised = "none") =>
    /\ Bound(parameters, fit, freenames)
    /\ \A k \in 1..Len(components) :
         Bound(components[k].parameters, components[k].fit,
               components[k].freenames)

\* component k as made anew from the values its registry holds now
Fresh(k) ==
  LET c == components[k]
      t == ParseCoeffs(registries[c.parameters].dict, c.nchan)
  IN [c EXCEPT !.steps = t.steps, !.steptimes = t.steptimes]

\* C13: an eval that returns gives what the components made anew from the
\* current values give, also after an update.
C13_UpdateThenEval ==
  (op = "eval" /\ flux # <<>>) =>
    \A j \in 1..Len(flux) :
      flux[j] = ProdOver([k \in 1..Len(components) |->
                            StepModelEval(Fresh(k))[j]], NonNoise)

(***************************************************************************)
(* Construction of a composite (PyMC3Models.py 265-363) and the product of *)
(* two models (PyMC3Models.py 67-91).                                      *)
(***************************************************************************)
\* the attribute name parname of channel 0 and parname + '_' + str(c) of
\* channel c (lines 317-320)
ChanName(parname, c) == <<parname, c>>

\* lines 294-304 with the constants of astropy folded in: Mp > 0 exactly when
\* (a*Rs)**3 * KeplerScale > KeplerInv * Ms * per**2
KeplerScale == 1000
KeplerInv == 74527

MassOK(reg) ==
  LET a == reg.obj["a"].value * reg.obj["Rs"].value
  IN a * a * a * KeplerScale >
       KeplerInv * reg.obj["Ms"].value * reg.obj["per"].value
         * reg.obj["per"].value

\* lines 323-358: the distribution made for a prior, "none" when no branch
\* is taken
Dist(parname, prior) ==
  CASE prior = "U" -> "Uniform"
    [] prior = "N" ->
         IF parname \in {"rp", "per", "ecc", "scatter_mult", "scatter_ppm",
                         "c0", "r1", "r4", "r7", "r10"}
         THEN "BoundedNormal_0"
         ELSE IF parname = "inc" THEN "BoundedNormal_90" ELSE "Normal"
    [] prior = "LU" -> "exp(Uniform)"
    [] OTHER -> "none"

\* every channel gets a variable of its own
OwnVariableAlways(param, c) == param = param /\ c = c

\* line 322: the channels for which a variable is made
OwnVariable(param, c) == param.ptype = "free" \/ c = 0

\* lines 316-363 from channel c on, for one parameter that is neither
\* independent nor fixed: mdl.attrs are the attributes of self.model, mdl.vars
\* the random variables created, in order
RECURSIVE BindChannels(_, _, _, _, _)
BindChannels(param, parname, n, c, mdl) ==
  IF c >= n THEN [model |-> mdl, raised |-> "none"]
  ELSE IF OwnVariable(param, c)
       THEN IF Dist(parname, param.prior) = "none"
            THEN BindChannels(param, parname, n, c + 1, mdl)
            ELSE BindChannels(param, parname, n, c + 1,
                   [attrs |-> (ChanName(parname, c) :>
                                 [kind |-> "variable",
                                  var |-> ChanName(parname, c),
                                  dist |-> Dist(parname, param.prior)])
                               @@ mdl.attrs,
                    vars |-> Append(mdl.vars, ChanName(parname, c))])
       ELSE IF ChanName(parname, 0) \notin DOMAIN mdl.attrs
            THEN [model |-> mdl, raised |-> "AttributeError"]
            ELSE BindChannels(param, parname, n, c + 1,
                   [mdl EXCEPT !.attrs = (ChanName(parname, c) :>
                                            mdl.attrs[ChanName(parname, 0)])
                                         @@ mdl.attrs])

\* the made-up kind is bound as well
BoundKindsAndBogus == {"free", "shared", "white_free", "white_fixed", "bogus"}

\* lines 310-311: the kinds bound to variables
BoundKinds == {"free", "shared", "white_free", "white_fixed"}

\* lines 306-363 from the k-th title on
RECURSIVE BindLoop(_, _, _, _, _)
BindLoop(reg, titles, n, k, mdl) ==
  IF k > Len(titles)
  THEN [model |-> mdl, raised |-> "none", message |-> <<>>]
  ELSE IF titles[k] \notin DOMAIN reg.obj
       THEN [model |-> mdl, raised |-> "AttributeError", message |-> <<>>]
       ELSE LET param == reg.obj[titles[k]]
            IN IF param.ptype \in {"independent", "fixed"}
               THEN BindLoop(reg, titles, n, k + 1,
                      [mdl EXCEPT !.attrs = (ChanName(titles[k], 0) :>
                                               [kind |-> "value",
                                                value |-> param.value])
                                            @@ mdl.attrs])
               ELSE IF param.ptype \notin BoundKinds
                    THEN [model |-> mdl, raised |-> "ValueError",
                          message |-> <<"ptype", param.ptype, "for parameter",
                                        param.name, "is not recognized.">>]
                    ELSE LET r == BindChannels(param, titles[k], n, 0, mdl)
                         IN IF r.raised # "none"
                            THEN [model |-> r.model, raised |-> r.raised,
                                  message |-> <<>>]
                            ELSE BindLoop(reg, titles, n, k + 1, r.model)

\* lines 276-363: the PyMC3 side of a composite of n channels made with the
\* parameters reg and the titles given
Construct(reg, titles, n) ==
  LET empty == [attrs |-> <<>>, vars |-> <<>>]
  IN IF ~({"a", "Rs", "per", "Ms"} \subseteq DOMAIN reg.obj)
     THEN [model |-> empty, raised |-> "AttributeError", message |-> <<>>]
     ELSE IF ~MassOK(reg)
     THEN [model |-> empty, raised |-> "AssertionError", message |-> <<>>]
     ELSE IF titles = None
     THEN [model |-> empty, raised |-> "TypeError", message |-> <<>>]
     ELSE BindLoop(reg, titles, n, 1, empty)

\* self.parameters + other.parameters: the parameters of both
AddParameters(ra, rb) ==
  [dict |-> ra.dict @@ rb.dict, obj |-> ra.obj @@ rb.obj]

\* lines 67-91: A * B for the models A = operands[1] and B = operands[2]
Multiply ==
  LET A == operands[1]
      B == operands[2]
      sum == AddParameters(registries[A.parameters], registries[B.parameters])
      id == Len(registries) + 1
      \* line 87: list.append adds other.paramtitles as one element to
      \* self.paramtitles and returns None
      A1 == [A EXCEPT !.paramtitles = Append(A.paramtitles, B.paramtitles)]
      \* lines 286-288: component.model = self.model, on the copy of self
      \* and on other itself, before anything in the constructor raises
      copy == [A1 EXCEPT !.model = "composite"]
      B1 == [B EXCEPT !.model = "composite"]
      titles == None
      r == Construct(sum, titles, 1)
  IN /\ op = "none"
     /\ op' = "mul"
     /\ registries' = Append(registries, sum)
     /\ IF A.paramtitles = None
        THEN /\ raised' = "AttributeError"
             /\ UNCHANGED <<operands, product>>
        ELSE /\ operands' = <<A1, B1>>
             /\ raised' = r.raised
             /\ product' = IF r.raised # "none" THEN None
                           ELSE [components |-> <<copy, B1>>, parameters |-> id,
                                 paramtitles |-> titles,
                                 model |-> r.model]
     /\ UNCHANGED <<time, nchan, components, flux, calls, new_time>>
     /\ UNCHANGED <<parameters, fit, freenames, newparams, svars>>
     /\ UNCHANGED xvars

\* a Parameter
Par(name, value, ptype, prior) ==
  [name |-> name, value |-> value, ptype |-> ptype, prior |-> prior]

\* the Parameters object holding the parameters given
Registry(pars) ==
  [dict |-> [name \in {q.name : q \in pars} |->
               (CHOOSE q \in pars : q.name = name).value],
   obj |-> [name \in {q.name : q \in pars} |->
              CHOOSE q \in pars : q.name = name]]

\* orbital parameters: a planet of positive mass when a is 10, not when 5
Orbit(a) == {Par("a", a, "fixed", "U"), Par("Rs", 1, "fixed", "U"),
             Par("per", 3, "fixed", "U"), Par("Ms", 1, "fixed", "U")}

\* the models multiplied: A with or without the orbital parameters, B with
\* one or two parameters of its own; each with its titles or with none
OperandsA ==
  {[parameters |-> 1, paramtitles |-> pt, time |-> t, flux |-> None,
    model |-> "own"] :
     pt \in {None, <<"c0">>, <<"a", "Rs", "per", "Ms", "c0">>},
     t \in {None} \cup Times}
OperandsB ==
  {[parameters |-> 2, paramtitles |-> pt, time |-> t, flux |-> None,
    model |-> "own"] :
     pt \in {None, <<"c1">>}, t \in {None} \cup Times}

InitMul ==
  /\ \E pa \in {Orbit(10), Orbit(5), {}}, pb \in {{}, {Par("c2", 1, "fixed", "U")}} :
       registries = <<Registry(pa \cup {Par("c0", 1, "free", "U")}),
                      Registry(pb \cup {Par("c1", 2, "free", "N")})>>
  /\ operands \in OperandsA \X OperandsB
  /\ product = None
  /\ time = None
  /\ nchan = 1
  /\ components = <<>>
  /\ flux = <<>>
  /\ raised = "none"
  /\ calls = <<>>
  /\ op = "none"
  /\ new_time = None
  /\ parameters = 0
  /\ fit = <<>>
  /\ freenames = None
  /\ newparams = <<>>
  /\ IdleS
  /\ IdleX

NextMul == Multiply

SpecMul == InitMul /\ [][NextMul]_mvars

\* C14: A * B returns a composite of A and B whose registry holds the
\* parameters of both and whose titles are those of A followed by those of B.
C14_ProductOfModels ==
  (op = "mul") =>
    /\ raised = "none"
    /\ product # None
    /\ Len(product.components) = 2
    /\ DOMAIN registries[product.parameters].dict =
         DOMAIN registries[operands[1].parameters].dict
           \cup DOMAIN registries[operands[2].parameters].dict
    /\ product.paramtitles # None
    /\ \A name \in DOMAIN registries[product.parameters].dict :
         \E k \in 1..Len(product.paramtitles) : product.paramtitles[k] = name

(***************************************************************************)
(* Composites that own composites (PyMC3Models.py 41-54, 427-545).         *)
(***************************************************************************)
\* a composite of n channels made of the components given, without a time;
\* its modeltype is the None of line 52, which no line of the composite
\* changes
Composite(comps, n) ==
  [modeltype |-> "None", nchan |-> n, time |-> None, components |-> comps]

\* the step models made without a time, one of each category
LeafChoices(n) == {c \in Components(n) : c.time = None}

\* what a composite may own: a step model, a composite of one or of two
\* step models, a composite of a composite
Owned(n) ==
  LeafChoices(n)
    \cup {Composite(<<c>>, n) : c \in LeafChoices(n)}
    \cup {Composite(<<c, d>>, n) : c \in LeafChoices(n), d \in LeafChoices(n)}
    \cup {Composite(<<Composite(<<c>>, n)>>, n) : c \in LeafChoices(n)}

InitN ==
  /\ nchan \in Chans
  /\ time \in Times
  /\ components \in {<<c>> : c \in Owned(nchan)}
                      \cup {<<c, d>> : c \in Owned(nchan), d \in Owned(nchan)}
  /\ flux = <<>>
  /\ raised = "none"
  /\ calls = <<>>
  /\ op = "none"
  /\ new_time = None
  /\ IdleP
  /\ IdleU
  /\ IdleS
  /\ IdleX

NextN ==
  \/ EvalCall(None)
  \/ SysEval(None)
  \/ PhysEval(None)

SpecN == InitN /\ [][NextN]_mvars

\* the step models at the leaves of the components, in order
RECURSIVE Leaves(_)
Leaves(comps) ==
  IF comps = <<>> THEN <<>>
  ELSE (IF IsComposite(Head(comps)) THEN Leaves(Head(comps).components)
        ELSE <<Head(comps)>>) \o Leaves(Tail(comps))

\* what the method gives on the composite that owns the leaves directly
Flat(method) ==
  LET ones == [k \in 1..(Len(time) * nchan) |-> 1]
  IN CASE method = "eval" -> EvalLoop(Leaves(components), time, ones, <<>>, 1)
       [] method = "syseval" ->
            KindLoop(Leaves(components), time, ones, <<>>, 1, "systematic")
       [] method = "physeval" ->
            KindLoop(Leaves(components), time, ones, <<>>, 1, "physical")

\* C15: eval, syseval and physeval of a composite that owns composites return
\* what they return on the composite that owns the leaves directly.
C15_NestingTransparent ==
  (op \in {"eval", "syseval", "physeval"} /\ flux # <<>>) =>
    flux = Flat(op).flux

\* C16: once the composite has a time axis, every component it owns has the
\* same one.
C16_TimesAgree ==
  (time # None) => \A k \in 1..Len(components) : components[k].time = time

(***************************************************************************)
(* Construction and setup of a composite (PyMC3Models.py 265-425).         *)
(***************************************************************************)
\* a composite has been returned by the constructor
Constructed == op # "none" /\ ~(op = "init" /\ raised # "none")

\* CompositePyMC3Model(components, parameters=..., paramtitles=..., nchan=...)
New ==
  LET r == Construct(registries[parameters], paramtitles, nchan)
  IN /\ op = "none"
     /\ op' = "init"
     /\ self_model' = r.model
     /\ raised' = r.raised
     /\ message' = r.message
     /\ fit' = NewFit(registries[parameters])
     /\ issetup' = FALSE
     /\ UNCHANGED <<time, nchan, components, flux, calls, new_time>>
     /\ UNCHANGED <<registries, parameters, freenames, newparams, uvars>>
     /\ UNCHANGED <<self_flux, lc_unc, scatter_array, setups, setup_args,
                    paramtitles>>
     /\ UNCHANGED xvars

\* hasattr(self.model, name)
HasAttr(name, c) == ChanName(name, c) \in DOMAIN self_model.attrs

\* lines 386-394: scatter_ppm of every channel over the times, in parts per
\* million; AttributeError at the first channel without its attribute
RECURSIVE ScatterPpm(_, _, _)
ScatterPpm(t, c, acc) ==
  IF c >= nchan THEN [array |-> acc, raised |-> "none"]
  ELSE IF ~HasAttr("scatter_ppm", c)
       THEN [array |-> acc, raised |-> "AttributeError"]
       ELSE ScatterPpm(t, c + 1,
              Append(acc, [by |-> self_model.attrs[ChanName("scatter_ppm", c)],
                           of |-> [k \in 1..Len(t) |-> 1], ppm |-> TRUE]))

\* lines 395-407: scatter_mult times the uncertainties of every channel; the
\* attribute of channel 0 serves every channel when the kind is 'fixed'
RECURSIVE ScatterMult(_, _, _, _)
ScatterMult(t, unc, c, acc) ==
  LET fixed == registries[parameters].obj["scatter_mult"].ptype = "fixed"
      cc == IF c = 0 \/ fixed THEN 0 ELSE c
  IN IF c >= nchan THEN [array |-> acc, raised |-> "none"]
     ELSE IF ~HasAttr("scatter_mult", cc)
          THEN [array |-> acc, raised |-> "AttributeError"]
          ELSE ScatterMult(t, unc, c + 1,
                 Append(acc,
                        [by |-> self_model.attrs[ChanName("scatter_mult", cc)],
                         of |-> [k \in 1..Len(t) |->
                                   IF c * Len(t) + k <= Len(unc)
                                   THEN unc[c * Len(t) + k] ELSE 0],
                         ppm |-> FALSE]))

\* lines 385-408: self.scatter_array after the block, None standing for no
\* attribute
Scatter(t, unc) ==
  LET ppm == IF HasAttr("scatter_ppm", 0) THEN ScatterPpm(t, 0, <<>>)
             ELSE [array |-> scatter_array, raised |-> "none"]
      mult == IF ppm.raised # "none" \/ ~HasAttr("scatter_mult", 0) THEN ppm
              ELSE ScatterMult(t, unc, 0, <<>>)
  IN IF mult.raised = "none" /\ mult.array = None
     THEN [array |-> unc, raised |-> "none"]
     ELSE mult

\* nothing is set up twice
NeverSetUp == FALSE

\* line 379: if self.issetup
AlreadySetUp == issetup

\* lines 365-425: setup(t, fl, unc)
Setup(t, fl, unc) ==
  /\ Constructed
  /\ op' = "setup"
  /\ setup_args' = <<t, fl, unc>>
  /\ IF AlreadySetUp
     THEN UNCHANGED <<time, components, self_flux, lc_unc, scatter_array,
                      setups, self_model, issetup, raised, message>>
     ELSE LET sc == Scatter(t, unc)
              r == EvalLoop(SetAll(components, t), t,
                            [k \in 1..(Len(t) * nchan) |-> 1], <<>>, 1)
              ok == sc.raised = "none" /\ r.raised = "none"
          IN /\ time' = t
             /\ self_flux' = fl
             /\ lc_unc' = unc
             /\ scatter_array' = sc.array
             /\ components' = IF sc.raised = "none" THEN r.components
                              ELSE SetAll(components, t)
             /\ setups' = IF sc.raised = "none"
                          THEN setups \o [k \in 1..Len(components) |-> k]
                          ELSE setups
             /\ raised' = IF sc.raised # "none" THEN sc.raised ELSE r.raised
             /\ message' = <<>>
             /\ issetup' = ok
             /\ self_model' =
                  IF ok
                  THEN [attrs |-> (ChanName("obs", 0) :>
                                     [kind |-> "observed", mu |-> r.flux,
                                      sd |-> sc.array, observed |-> fl])
                                  @@ self_model.attrs,
                        vars |-> Append(self_model.vars, ChanName("obs", 0))]
                  ELSE self_model
  /\ UNCHANGED <<nchan, flux, calls, new_time, pvars, uvars, paramtitles>>
  /\ UNCHANGED xvars

\* the binding kinds and the prior families tried
PTypes == {"independent", "fixed", "free", "shared", "white_free",
           "white_fixed", "bogus"}
Priors == {"U", "N", "LU", "X"}

\* the noise parameters tried: none, or one of the two with its kind
ScatterPars ==
  {{}} \cup {{Par(name, 1, pt, "U")} :
               name \in {"scatter_mult", "scatter_ppm"},
               pt \in {"fixed", "free", "white_free"}}

\* the titles, in the order of the registry or with the noise parameter
\* first
TitleLists(sp) ==
  IF sp = {} THEN {<<"c0">>}
  ELSE LET name == (CHOOSE q \in sp : TRUE).name
       IN {<<"c0", name>>, <<name, "c0">>}

\* the observed fluxes and the uncertainties handed to setup, long enough
\* for every channel
Fluxes == {[k \in 1..6 |-> 1]}
Uncertainties == {[k \in 1..6 |-> 1], [k \in 1..6 |-> 2]}

\* the arguments of the constructor: the orbital parameters of a planet of
\* positive mass or not, one parameter c0 of any kind and prior, a noise
\* parameter or none, and at most one step model
InitS ==
  /\ nchan \in Chans
  /\ \E a \in {10, 5}, pt \in PTypes, pr \in Priors, sp \in ScatterPars :
       /\ registries = <<Registry(Orbit(a) \cup {Par("c0", 1, pt, pr)} \cup sp)>>
       /\ paramtitles \in TitleLists(sp)
  /\ parameters = 1
  /\ components \in {<<>>} \cup {<<c>> : c \in LeafChoices(nchan)}
  /\ time = None
  /\ flux = <<>>
  /\ raised = "none"
  /\ calls = <<>>
  /\ op = "none"
  /\ new_time = None
  /\ fit = <<>>
  /\ freenames = None
  /\ newparams = <<>>
  /\ IdleU
  /\ self_model = <<>>
  /\ issetup = FALSE
  /\ self_flux = None
  /\ lc_unc = None
  /\ scatter_array = None
  /\ setups = <<>>
  /\ setup_args = <<>>
  /\ message = <<>>
  /\ IdleX

NextS ==
  \/ New
  \/ \E t \in Times, fl \in Fluxes, unc \in Uncertainties : Setup(t, fl, unc)

SpecS == InitS /\ [][NextS]_mvars

\* the observation nodes registered in the model
ObsNodes ==
  IF self_model = <<>> THEN {}
  ELSE {k \in 1..Len(self_model.vars) : self_model.vars[k] = ChanName("obs", 0)}

\* C17: a setup on a composite that is set up changes neither time, flux,
\* uncertainties, scatter array, components, their setups nor the model,
\* whatever its arguments; a composite that is set up has one observation
\* node.
C17_SetupOnce ==
  /\ [](issetup => Cardinality(ObsNodes) = 1)
  /\ [][(issetup /\ op' = "setup") =>
          UNCHANGED <<time, self_flux, lc_unc, scatter_array, components,
                      setups, self_model, issetup>>]_mvars

\* setup was called on a composite that is set up, with another time axis and
\* other uncertainties than it holds
C17_Witness ==
  /\ issetup
  /\ op = "setup"
  /\ setup_args[1] # time
  /\ setup_args[3] # lc_unc
  /\ components # <<>>

\* the Parameter of a title
ParamOf(parname) == registries[parameters].obj[parname]

\* the titles of the kind whose prior is a recognized family
TitlesOf(ptype) ==
  {paramtitles[k] : k \in {j \in 1..Len(paramtitles) :
      /\ ParamOf(paramtitles[j]).ptype = ptype
      /\ ParamOf(paramtitles[j]).prior \in {"U", "N", "LU"}}}

\* the parameter has a variable of its own in every channel, named after
\* the channel and created once
PerChannel(parname) ==
  \A c \in 0..(nchan - 1) :
    /\ HasAttr(parname, c)
    /\ self_model.attrs[ChanName(parname, c)].kind = "variable"
    /\ self_model.attrs[ChanName(parname, c)].var = ChanName(parname, c)
    /\ Cardinality({k \in 1..Len(self_model.vars) :
                      self_model.vars[k] = ChanName(parname, c)}) = 1

\* the parameter has one variable, that of channel 0, under every channel
\* name
OneForAll(parname) ==
  /\ \A c \in 0..(nchan - 1) :
       /\ HasAttr(parname, c)
       /\ self_model.attrs[ChanName(parname, c)].kind = "variable"
       /\ self_model.attrs[ChanName(parname, c)].var = ChanName(parname, 0)
  /\ Cardinality({k \in 1..Len(self_model.vars) :
                    self_model.vars[k][1] = parname}) = 1

\* C18: in a composite that was constructed, a 'free' parameter has one
\* variable of its own per channel, named p, p_1, ..., and a 'shared' one has
\* a single variable that every channel name resolves to (priors U, N, LU).
C18_FreeAndShared ==
  Constructed =>
    /\ \A parname \in TitlesOf("free") : PerChannel(parname)
    /\ \A parname \in TitlesOf("shared") : OneForAll(parname)

\* a composite of two channels was constructed with a shared c0 and a free
\* noise parameter
C18_Witness ==
  /\ op = "init"
  /\ raised = "none"
  /\ nchan = 2
  /\ "c0" \in TitlesOf("shared")
  /\ TitlesOf("free") # {}

\* C19: in a composite that was constructed, a 'white_free' parameter has
\* one variable of its own per channel, and a 'white_fixed' one is a constant
\* with no variable.
C19_WhiteKinds ==
  Constructed =>
    /\ \A parname \in TitlesOf("white_free") : PerChannel(parname)
    /\ \A parname \in TitlesOf("white_fixed") :
         /\ HasAttr(parname, 0)
         /\ self_model.attrs[ChanName(parname, 0)].kind = "value"
         /\ \A k \in 1..Len(self_model.vars) :
              self_model.vars[k][1] # parname

\* the titles whose kind is none of the six
UnknownKinds ==
  {k \in 1..Len(paramtitles) :
     ParamOf(paramtitles[k]).ptype \notin
       {"independent", "fixed", "free", "shared", "white_free",
        "white_fixed"}}

\* the constructor raised ValueError with the message naming the first
\* parameter of unknown kind and its kind; nothing is set up
NamedError ==
  LET param == ParamOf(paramtitles[CHOOSE k \in UnknownKinds :
                                     \A j \in UnknownKinds : k <= j])
  IN /\ raised = "ValueError"
     /\ message = <<"ptype", param.ptype, "for parameter", param.name,
                    "is not recognized.">>
     /\ ~Constructed
     /\ ~issetup

UnknownPriors ==
  {k \in 1..Len(paramtitles) :
     /\ ParamOf(paramtitles[k]).ptype \in {"free", "shared"}
     /\ ParamOf(paramtitles[k]).prior \notin {"U", "N", "LU"}}

\* C21: the construction with a free or shared parameter whose prior is none
\* of U, N, LU raises an error; it never completes with the parameter left
\* without a binding.
C21_UnknownPriorFails ==
  (op = "init" /\ UnknownPriors # {}) =>
    /\ raised # "none"
    /\ ~Constructed

(***************************************************************************)
(* A step model on its own (StepModel.py 9-110).                           *)
(***************************************************************************)
\* StepModel.eval, lines 100-110, called with time=kw or without (None) on
\* the one model of components
StepEval(kw) ==
  LET c == components[1]
      t == IF c.time = None THEN kw ELSE c.time
      c1 == [c EXCEPT !.time = t]
  IN /\ components' = <<c1>>
     /\ IF t = None
        THEN raised' = "TypeError" /\ flux' = <<>>
        ELSE raised' = "none" /\ flux' = StepModelEval(c1)
     /\ op' = "stepeval"
     /\ new_time' = kw
     /\ calls' = <<>>
     /\ UNCHANGED <<time, nchan, pvars, uvars, svars>>
     /\ UNCHANGED xvars

\* the dicts of step parameters of a model of n channels: heights and times
\* of a step of channel 0, a second step of channel 0 and a step of channel 1
StepDicts(n) ==
  LET Opt(name, vals) == {<<>>} \cup {name :> v : v \in vals}
  IN {d0 @@ t0 @@ d1 @@ d01 @@ t01 :
        d0 \in Opt("step0", {0, 1, 2}), t0 \in Opt("steptime0", {1, 2, 3}),
        d1 \in Opt("step1", {1}),
        d01 \in IF n > 1 THEN Opt("step0_1", {1, 3}) ELSE {<<>>},
        t01 \in IF n > 1 THEN Opt("steptime0_1", {2}) ELSE {<<>>}}

\* after StepModel.__init__ with the parameters, nchan and time given
InitE ==
  /\ nchan \in Chans
  /\ \E dict \in StepDicts(nchan), t \in {None} \cup Times :
       /\ registries =
            <<[dict |-> dict,
               obj |-> [name \in DOMAIN dict |-> [value |-> dict[name]]]]>>
       /\ components =
            <<[StepComponent(registries, 1, nchan, None) EXCEPT !.time = t]>>
  /\ parameters = 1
  /\ time = None
  /\ fit = <<>>
  /\ freenames = None
  /\ newparams = <<>>
  /\ flux = <<>>
  /\ raised = "none"
  /\ calls = <<>>
  /\ op = "none"
  /\ new_time = None
  /\ IdleU
  /\ IdleS
  /\ IdleX

NextE == \E kw \in {None} \cup Times : StepEval(kw)

SpecE == InitE /\ [][NextE]_mvars

\* the step parameters of the model
StepKeys == DOMAIN registries[1].dict \cap DOMAIN Spelling

\* C22: a step model whose parameters are one step of height step0 at time
\* steptime0 evaluates, in every channel, to 1 before the step time and to
\* 1 + step0 from it on, channel after channel.
C22_OneStepEveryChannel ==
  (op = "stepeval" /\ raised = "none" /\ StepKeys = {"step0", "steptime0"}) =>
    LET c == components[1]
        nt == Len(c.time)
        dict == registries[1].dict
    IN /\ Len(flux) = nchan * nt
       /\ \A ch \in 0..(nchan - 1), j \in 1..nt :
            flux[ch * nt + j] =
              IF c.time[j] < dict["steptime0"] THEN 1 ELSE 1 + dict["step0"]

\* the parameter values component k holds: those of its registry and those
\* of its fit
ValuesOf(k) ==
  [dict |-> registries[components[k].parameters].dict,
   fit |-> components[k].fit]

\* all components hold the same values, each in its registry and its fit
\* alike
OneVersion ==
  /\ \A j, k \in 1..Len(components) : ValuesOf(j) = ValuesOf(k)
  /\ \A k \in 1..Len(components) :
       \A name \in DOMAIN ValuesOf(k).fit :
         /\ name \in DOMAIN ValuesOf(k).dict
         /\ ValuesOf(k).fit[name] = ValuesOf(k).dict[name]

NewlyFound == {p \in y1x1 : M[p] = 1}

\* C24: within an integration a pass that flags a new pixel masks it and
\* goes back to the head of the loop, where the next pass builds the profile
\* from the median image under the mask as it is then; the weighted sum is
\* taken only in a pass that flags no new pixel, that pass ends the loop,
\* and the row is written only after it, from that sum.
C24_LoopOrder ==
  [][/\ (pc = "if" /\ NewlyFound # {}) =>
          /\ pc' = "while"
          /\ isnewprofile'
          /\ \A p \in y1x1 : M'[p] = 0
          /\ f' = f /\ var_f' = var_f
          /\ i' = i
     /\ (pc = "while" /\ npass >= 1) =>
          /\ pc' = "revise"
          /\ P' = Normalize(RawProfile(median, M))
     /\ (f' # f \/ var_f' # var_f) =>
          /\ pc = "if"
          /\ NewlyFound = {}
          /\ pc' = "row"
     /\ (pc = "row") => pc' \in {"for", "done"} /\ M' = M /\ P' = P
     /\ (pc # "call" /\ extracted_spectra' # extracted_spectra) =>
          /\ pc = "row"
          /\ extracted_spectra'[i] = RowFrom(f)
          /\ \A t \in DOMAIN extracted_spectra \ {i} :
               extracted_spectra'[t] = extracted_spectra[t]]_xvars

\* a row is about to be written after a pass that flagged a pixel, a second
\* pass on the rebuilt profile and the sum taken in it
C24_Witness ==
  /\ pc = "row"
  /\ npass = 2
  /\ NGood(M) = NPix(M) - 1
  /\ f # <<>>
  /\ P = Profile(median, M)

\* (|D - sky_bkg[i] - spectrum[i]| * P)^2 / V at pixel p in the pass under way
Residual2(p) == Stdevs2(D, P, Variance(P, i), i)[p]

\* the root of the residual is a number above sigma
RootExceeds(p) ==
  LET r == Residual2(p)
      s == args.sigma
  IN /\ r # NaN /\ s # NaN
     /\ r[1] >= 0
     /\ IF s = PInf THEN FALSE
        ELSE IF r = PInf THEN TRUE
        ELSE \/ s[1] < 0
             \/ r[1] * s[2] * s[2] > s[1] * s[1] * r[2]

\* C25 as stated: the pixels a pass newly marks are the good pixels whose
\* residual (|D - background - spectrum| * P)^2 / V is above sigma.
C25_ResidualAboveSigma ==
  (pc = "if" /\ Q # <<>>) =>
    \A p \in Pix : (p \in NewlyFound) <=> (M[p] = 1 /\ Gt(Residual2(p), args.sigma))

\* C25: the pixels a pass newly marks are the good pixels for which the
\* square root of (|D - background - spectrum| * P)^2 / V is above sigma;
\* the other pixels keep their mark.
C25_RootAboveSigma ==
  /\ [](pc = "if" =>
          \A p \in Pix : (p \in NewlyFound) <=> (M[p] = 1 /\ RootExceeds(p)))
  /\ [][(pc = "if") =>
          \A p \in Pix :
            M'[p] = IF pc' = "while" /\ p \in NewlyFound THEN 0 ELSE M[p]]_xvars

\* a pass at a finite threshold that found one pixel above it and left a
\* good pixel with a residual above 0 unmarked
C25_Witness ==
  /\ pc = "if"
  /\ args.sigma = R(2)
  /\ Cardinality(NewlyFound) = 1
  /\ \E p \in Pix : M[p] = 1 /\ p \notin y1x1 /\ Gt(Residual2(p), R(0))

\* the static mask marks pixel p of the integration under way
Static(p) == args.has_cr /\ args.cr_mask[i][p]

\* C26: the static mask is applied once per integration, in the pass that has
\* found no new pixel and before its sum: up to then the image is the
\* integration's own, the profile, the variance and the pixels found are
\* those of the unmasked image, and the caller's arrays stay as passed.
C26_StaticMaskLast ==
  /\ [](pc \in {"while", "revise", "if"} =>
          /\ D = DataSlice(i)
          /\ median = MedianImage)
  /\ [](pc = "if" => y1x1 = Flagged(DataSlice(i), P, M, i))
  /\ [][/\ args' = args
        /\ (pc \in {"while", "revise", "if", "row"} /\ D' # D) =>
             /\ pc = "if" /\ pc' = "row"
             /\ NewlyFound = {}
        /\ (pc = "if" /\ pc' = "row") =>
             /\ \A p \in Pix : D'[p] = IF Static(p) THEN R(0) ELSE D[p]
             /\ P' = P /\ M' = M
             /\ \A c \in SliceCols :
                  f'[c] = Flux(D', P, Variance(P, i), M, c)]_xvars

\* a row is about to be written from an image with a statically masked
\* pixel, after passes of the same integration that flagged some pixels and
\* left others good
C26_Witness ==
  /\ pc = "row"
  /\ args.has_cr
  /\ D # DataSlice(i)
  /\ NGood(M) < NPix(M)
  /\ NGood(M) > 0

\* the cosmic-ray mask with the pixels of the static mask marked as well
BothMasks == [p \in Pix |-> IF Static(p) THEN 0 ELSE M[p]]

\* C27: the sums of a column leave out the pixels of the static mask as they
\* leave out the pixels of the cosmic-ray mask: f and var_f are those of
\* the pixels good in both.
C27_StaticExcluded ==
  (pc = "row" /\ args.has_cr) =>
    \A c \in SliceCols :
      /\ f[c] = Flux(DataSlice(i), P, Variance(P, i), BothMasks, c)
      /\ var_f[c] = FluxVar(P, Variance(P, i), BothMasks, c)

\* the threshold is a number that is not negative (infinity included)
SigmaNotNegative == args.sigma # NaN /\ args.sigma[1] >= 0

\* C28: at a threshold that is not negative the pixels a pass finds are all
\* still good, so every pass that goes back to the head of the loop leaves
\* fewer good pixels, an integration takes at most one pass more than the
\* region has pixels, and the call comes to its end.
C28_LoopTerminates ==
  /\ [](SigmaNotNegative =>
          /\ (pc = "if" => \A p \in y1x1 : M[p] = 1)
          /\ npass <= NPix(M) + 1)
  /\ [][(SigmaNotNegative /\ pc = "if" /\ pc' = "while") =>
          NGood(M') < NGood(M)]_xvars
  /\ (SigmaNotNegative => <>(pc = "done"))

\* a call at a finite threshold has returned its arrays after an
\* integration of three passes, two of which flagged pixels
C28_Witness ==
  /\ pc = "done"
  /\ result = "arrays"
  /\ args.sigma \in {R(1), R(2)}
  /\ npass >= 3
  /\ NGood(M) <= NPix(M) - 2

\* C29: A * B leaves A and B as they were: their parameters, titles, time,
\* flux and model binding are after the multiplication what they were
\* before it.
C29_OperandsUnchanged ==
  [][(op' = "mul") =>
       /\ operands' = operands
       /\ \A k \in 1..2 :
            registries'[operands[k].parameters] =
              registries[operands[k].parameters]]_mvars

(***************************************************************************)
(* Evaluation on another time grid: interp (PyMC3Models.py 150-175) and    *)
(* physeval with interp=True (PyMC3Models.py 519-545).                     *)
(***************************************************************************)
\* np.round(n/d) for d > 0: to the nearest integer, halves to the even one
RoundDiv(n, d) ==
  LET q == n \div d
      r == n % d
  IN IF 2 * r < d THEN q
     ELSE IF 2 * r > d THEN q + 1
     ELSE IF q % 2 = 0 THEN q ELSE q + 1

\* np.linspace(a, b, n, endpoint=True), for grids that fall on integers
Linspace(a, b, n) ==
  [k \in 1..n |-> IF n = 1 THEN a ELSE a + ((k - 1) * (b - a)) \div (n - 1)]

\* lines 524-528: the grid from the first to the last time in steps of the
\* first spacing
Resample(t) ==
  LET dt == t[2] - t[1]
      steps == RoundDiv(t[Len(t)] - t[1] + dt, dt)
  IN Linspace(t[1], t[Len(t)], steps)

\* interp that leaves the new grid in place
ComponentInterpKeep(c, grid) ==
  [component |-> [c EXCEPT !.time = grid],
   flux |-> StepModelEval([c EXCEPT !.time = grid]), raised |-> "none"]

\* lines 165-175 on a component that is no composite: the time is saved, the
\* grid is set and evaluated on, and the saved time is set again; setting
\* None raises at line 123
ComponentInterp(c, grid) ==
  IF c.time = None
  THEN [component |-> [c EXCEPT !.time = grid], flux |-> <<>>,
        raised |-> "TypeError"]
  ELSE [component |-> c, flux |-> StepModelEval([c EXCEPT !.time = grid]),
        raised |-> "none"]

\* lines 534-539 from component k on: the interp of a physical component is
\* multiplied in, its time filled in when it has none
RECURSIVE InterpLoop(_, _, _, _, _)
InterpLoop(comps, t, grid, fl, k) ==
  IF k > Len(comps)
  THEN [components |-> comps, flux |-> fl, raised |-> "none"]
  ELSE IF ~Selected(comps[k], "physical")
       THEN InterpLoop(comps, t, grid, fl, k + 1)
       ELSE LET c == IF comps[k].time = None
                     THEN SetTimeOf(comps[k], t) ELSE comps[k]
                e == ComponentInterp(c, grid)
                comps1 == [comps EXCEPT ![k] = e.component]
            IN IF e.raised = "none" /\ CanMulInPlace(Len(fl), Len(e.flux))
               THEN InterpLoop(comps1, t, grid, MulInPlace(fl, e.flux), k + 1)
               ELSE [components |-> comps1, flux |-> <<>>,
                     raised |-> IF e.raised = "none" THEN "ValueError"
                                ELSE e.raised]

\* lines 519-545 with interp = True, called with the keyword argument
\* time = kw
PhysEvalInterp(kw) ==
  /\ IF time = None /\ kw = None
     THEN /\ raised' = "TypeError"
          /\ flux' = <<>>
          /\ new_time' = None
          /\ UNCHANGED <<time, components>>
     ELSE LET t == IF time = None THEN kw ELSE time
              comps == IF time = None THEN SetAll(components, kw)
                       ELSE components
          IN IF Len(t) < 2
             THEN /\ raised' = "IndexError"
                  /\ flux' = <<>>
                  /\ new_time' = None
                  /\ time' = t
                  /\ components' = comps
             ELSE LET grid == Resample(t)
                      ones == [k \in 1..(Len(grid) * nchan) |-> 1]
                      r == InterpLoop(comps, t, grid, ones, 1)
                  IN /\ time' = t
                     /\ components' = r.components
                     /\ flux' = r.flux
                     /\ raised' = r.raised
                     /\ new_time' = IF r.raised = "none" THEN grid ELSE None
  /\ op' = "physinterp"
  /\ calls' = <<>>
  /\ UNCHANGED nchan
  /\ UNCHANGED <<pvars, uvars, svars>>
  /\ UNCHANGED xvars

\* lines 150-175 on the composite: the composite's setter hands the grid to
\* every component, eval runs, and the setter hands the saved time back; a
\* saved time of None raises at line 593 and leaves the grid in place
Interp(grid) ==
  LET ones == [k \in 1..(Len(grid) * nchan) |-> 1]
      r == EvalLoop(SetAll(components, grid), grid, ones, <<>>, 1)
  IN /\ IF r.raised # "none" \/ time = None
        THEN /\ time' = grid
             /\ components' = r.components
             /\ flux' = <<>>
             /\ raised' = IF r.raised # "none" THEN r.raised ELSE "TypeError"
        ELSE /\ time' = time
             /\ components' = SetAll(r.components, time)
             /\ flux' = r.flux
             /\ raised' = "none"
     /\ new_time' = grid
     /\ op' = "interp"
     /\ calls' = <<>>
     /\ UNCHANGED nchan
     /\ UNCHANGED <<pvars, uvars, svars>>
     /\ UNCHANGED xvars

\* the time of the composite, the times passed to physeval and the grids
\* passed to interp
UnevenTimes == {<<0, 1, 3>>}
Grids == {<<0, 1, 2, 3>>, <<1, 2>>}

InitI ==
  /\ nchan \in Chans
  /\ time \in {None} \cup UnevenTimes
  /\ components \in ComponentLists(nchan)
  /\ flux = <<>>
  /\ raised = "none"
  /\ calls = <<>>
  /\ op = "none"
  /\ new_time = None
  /\ IdleP
  /\ IdleU
  /\ IdleS
  /\ IdleX

NextI ==
  \/ \E kw \in {None} \cup UnevenTimes \cup Times : PhysEvalInterp(kw)
  \/ \E grid \in Grids : Interp(grid)

SpecI == InitI /\ [][NextI]_mvars

\* the step is an interp or a physeval on a resampled grid that returns
GridCallReturns == op' \in {"interp", "physinterp"} /\ raised' = "none"

\* C30 as stated: after interp and after physeval with resampling return,
\* the time of the composite and of every physical component is what it was
\* before the call.
C30_TimeUnchanged ==
  [][GridCallReturns =>
       /\ time' = time
       /\ \A k \in 1..Len(components) :
            components[k].modeltype = "physical" =>
              components'[k].time = components[k].time]_mvars

\* C30: after interp and after physeval with resampling return, no model is
\* left with the grid of the call: the composite has the time it had, and a
\* component has the time it had when that was set and, for interp, equal to
\* the composite's; the other components are left with the composite's time.
C30_GridNotKept ==
  [][GridCallReturns =>
       /\ time' # None
       /\ (time # None) =>
            /\ time' = time
            /\ \A k \in 1..Len(components) :
                 (/\ components[k].time # None
                  /\ (op' = "physinterp" \/ components[k].time = time)) =>
                   components'[k].time = components[k].time
       /\ \A k \in 1..Len(components) :
            components'[k].time \in {components[k].time, time'}]_mvars

\* physeval has returned the flux on a grid of four times while the
\* composite keeps its three times and a physical component its own
C30_Witness ==
  /\ op = "physinterp"
  /\ raised = "none"
  /\ time = <<0, 1, 3>>
  /\ new_time = <<0, 1, 2, 3>>
  /\ Len(flux) = 4 * nchan
  /\ \E k \in 1..Len(components) :
       /\ components[k].modeltype = "physical"
       /\ components[k].time = <<1, 2, 3>>
  /\ \E j \in 1..Len(flux) : flux[j] # 1

=============================================================================
